---------------------------- MODULE Spec2Model ----------------------------
(***************************************************************************)
(* Model of the graph library: the DirectedGraph abstract data type        *)
(* (src/graph/directed_graph.py) and the algorithm suite working on it     *)
(* (src/algorithms/directed_weighted_extra.py).                            *)
(*                                                                         *)
(* A Python dict is modelled as a sequence of [key, value] entries in      *)
(* insertion order, a Python list as a sequence, a Vertex by its integer   *)
(* value (Vertex equality and hashing are defined by the value alone).     *)
(***************************************************************************)
EXTENDS Integers, Sequences, FiniteSets, TLC

(***************************************************************************)
(* Bounds of the exploration.                                              *)
(***************************************************************************)
\* vertex identifiers the caller of the ADT draws its arguments from: 0..NumVertexIds-1
NumVertexIds == 3
\* largest number of edges a graph explored by the ADT specification holds
MaxEdges == 2
\* largest number of vertices of a graph handed to the algorithms
AlgVertices == 4
\* largest number of edges of a graph handed to the algorithms
AlgEdges == 4
\* the costs of the edges of those graphs are 1 .. AlgMaxCost
AlgMaxCost == 1
\* largest number of vertices and of edges of a graph handed to the
\* cost-based algorithms, whose edge costs are -WMaxCost .. WMaxCost
WVertices == 3
WEdges == 3
WMaxCost == 1
\* largest number of vertices and of edges of a graph handed to the
\* walk-counting algorithms, whose edge costs are 0 .. CountMaxCost
CountVertices == 4
CountEdges == 4
CountMaxCost == 1
\* generate_rand_weighted_directed_graph is called with at most GenMaxN
\* vertices, and its loop is followed for the first GenMaxEdges edges
GenMaxN == 3
GenMaxEdges == 3

\* graphs written to a file: at most FileVertices vertices and FileEdges
\* edges, FileMaxId being the largest vertex identifier
FileVertices == 3
FileEdges == 3
FileMaxId == 10

\* the UI is given vertex identifiers 0 .. UiVertices-1 and costs
\* 0 .. UiMaxCost, and adds an edge while the graph has less than UiEdges
UiVertices == 2
UiEdges == 2
UiMaxCost == 1

VertexIds == 0 .. (NumVertexIds - 1)

\* "no exception": the call returned normally
NoError == "none"
\* Python's None
None == "None"

(***************************************************************************)
(* Python dict and list primitives.                                        *)
(***************************************************************************)
\* the keys of a dict
DictKeys(d) == {d[i].key : i \in 1 .. Len(d)}

\* key in d
DictHas(d, k) == \E i \in 1 .. Len(d) : d[i].key = k

\* d[k] for a key that is present
DictGet(d, k) == d[CHOOSE i \in 1 .. Len(d) : d[i].key = k].value

\* d[k] = v : overwrites in place, or appends a new entry at the end
DictSet(d, k, v) ==
    IF DictHas(d, k)
    THEN [i \in 1 .. Len(d) |-> IF d[i].key = k THEN [key |-> k, value |-> v] ELSE d[i]]
    ELSE Append(d, [key |-> k, value |-> v])

\* del d[k]
DictDel(d, k) == SelectSeq(d, LAMBDA e : e.key # k)

\* x in l
ListIn(l, x) == \E i \in 1 .. Len(l) : l[i] = x

\* the elements of a list
ListElems(l) == {l[i] : i \in 1 .. Len(l)}

\* l.remove(x) for an x that occurs in l: removes the first occurrence
ListRemove(l, x) ==
    LET i == CHOOSE j \in 1 .. Len(l) : l[j] = x /\ \A h \in 1 .. (j - 1) : l[h] # x
    IN  SubSeq(l, 1, i - 1) \o SubSeq(l, i + 1, Len(l))

(***************************************************************************)
(* DirectedGraph.  A graph object is the record of its two dicts.  Every   *)
(* mutator is an operator from the graph before the call to the graph      *)
(* after the call and the exception raised (NoError when it returns).      *)
(***************************************************************************)
\* DirectedGraph.__init__
EmptyGraph == [_predecessors |-> <<>>, _successors |-> <<>>]

Outcome(g, e) == [graph |-> g, raised |-> e]

is_vertex(g, vertex) == DictHas(g._predecessors, vertex)

\* the vertices property: the keys of _predecessors, in insertion order
vertices(g) == [i \in 1 .. Len(g._predecessors) |-> g._predecessors[i].key]

number_of_vertices(g) == Len(g._predecessors)

RECURSIVE SumLen(_, _)
SumLen(d, i) == IF i > Len(d) THEN 0 ELSE Len(d[i].value) + SumLen(d, i + 1)

number_of_edges(g) == SumLen(g._predecessors, 1)

\* is_edge: the exception it raises, and the value it returns otherwise
is_edge_raises(g, vertex_1, vertex_2) ==
    IF ~DictHas(g._predecessors, vertex_1) \/ ~DictHas(g._predecessors, vertex_2)
    THEN "Invalid vertex!"
    ELSE NoError

is_edge(g, vertex_1, vertex_2) == ListIn(DictGet(g._successors, vertex_1), vertex_2)

\* add_vertex with the assignments made before the check
add_vertex_overwrites(g, vertex) ==
    Outcome([_predecessors |-> DictSet(g._predecessors, vertex, <<>>),
             _successors   |-> DictSet(g._successors, vertex, <<>>)],
            IF DictHas(g._predecessors, vertex) THEN "Vertex already exists!" ELSE NoError)

add_vertex(g, vertex) ==
    IF DictHas(g._predecessors, vertex)
    THEN Outcome(g, "Vertex already exists!")
    ELSE Outcome([_predecessors |-> DictSet(g._predecessors, vertex, <<>>),
                  _successors   |-> DictSet(g._successors, vertex, <<>>)], NoError)

\* one of the two loops of remove_vertex: for k in ks[i..]: d[k].remove(vertex).
\* d[k] of an absent key raises KeyError, remove of an absent element
\* ValueError; the loop stops there, with the removals done so far kept.
RECURSIVE remove_from_each(_, _, _, _)
remove_from_each(d, ks, vertex, i) ==
    IF i > Len(ks) THEN [dict |-> d, raised |-> NoError]
    ELSE IF ~DictHas(d, ks[i]) THEN [dict |-> d, raised |-> "KeyError"]
    ELSE IF ~ListIn(DictGet(d, ks[i]), vertex) THEN [dict |-> d, raised |-> "ValueError"]
    ELSE remove_from_each(DictSet(d, ks[i], ListRemove(DictGet(d, ks[i]), vertex)),
                          ks, vertex, i + 1)

\* remove_vertex without its second loop and without stopping at an exception
remove_vertex_one_direction(g, vertex) ==
    IF ~DictHas(g._predecessors, vertex)
    THEN Outcome(g, "Invalid vertex!")
    ELSE LET loop1 == remove_from_each(g._successors, DictGet(g._predecessors, vertex), vertex, 1)
         IN  Outcome([_predecessors |-> DictDel(g._predecessors, vertex),
                      _successors   |-> DictDel(loop1.dict, vertex)], loop1.raised)

remove_vertex(g, vertex) ==
    IF ~DictHas(g._predecessors, vertex)
    THEN Outcome(g, "Invalid vertex!")
    ELSE LET loop1 == remove_from_each(g._successors, DictGet(g._predecessors, vertex), vertex, 1)
             g1    == [g EXCEPT !._successors = loop1.dict]
         IN  IF loop1.raised # NoError THEN Outcome(g1, loop1.raised)
             ELSE IF ~DictHas(g1._successors, vertex) THEN Outcome(g1, "KeyError")
             ELSE
             LET loop2 == remove_from_each(g1._predecessors, DictGet(g1._successors, vertex), vertex, 1)
                 g2    == [g1 EXCEPT !._predecessors = loop2.dict]
             IN  IF loop2.raised # NoError THEN Outcome(g2, loop2.raised)
                 ELSE Outcome([_predecessors |-> DictDel(g2._predecessors, vertex),
                               _successors   |-> DictDel(g2._successors, vertex)], NoError)

\* add_edge that appends to the successor list only
add_edge_successors_only(g, vertex_1, vertex_2) ==
    IF ~DictHas(g._predecessors, vertex_1) \/ ~DictHas(g._predecessors, vertex_2)
    THEN Outcome(g, "Invalid vertex!")
    ELSE IF ListIn(DictGet(g._successors, vertex_1), vertex_2)
    THEN Outcome(g, "Edge already exists!")
    ELSE Outcome([g EXCEPT !._successors =
                      DictSet(g._successors, vertex_1,
                              Append(DictGet(g._successors, vertex_1), vertex_2))], NoError)

\* add_edge without the test for an edge already present
add_edge_no_duplicate_check(g, vertex_1, vertex_2) ==
    IF ~DictHas(g._predecessors, vertex_1) \/ ~DictHas(g._predecessors, vertex_2)
    THEN Outcome(g, "Invalid vertex!")
    ELSE LET p == DictSet(g._predecessors, vertex_2,
                          Append(DictGet(g._predecessors, vertex_2), vertex_1))
             s == DictSet(g._successors, vertex_1,
                          Append(DictGet(g._successors, vertex_1), vertex_2))
         IN  Outcome([_predecessors |-> p, _successors |-> s], NoError)

\* add_edge whose first test looks at vertex_1 only
add_edge_checks_source_only(g, vertex_1, vertex_2) ==
    IF ~DictHas(g._predecessors, vertex_1)
    THEN Outcome(g, "Invalid vertex!")
    ELSE IF ListIn(DictGet(g._successors, vertex_1), vertex_2)
    THEN Outcome(g, "Edge already exists!")
    ELSE IF ~DictHas(g._predecessors, vertex_2)
    THEN Outcome(g, "KeyError")
    ELSE LET p == DictSet(g._predecessors, vertex_2,
                          Append(DictGet(g._predecessors, vertex_2), vertex_1))
             s == DictSet(g._successors, vertex_1,
                          Append(DictGet(g._successors, vertex_1), vertex_2))
         IN  Outcome([_predecessors |-> p, _successors |-> s], NoError)

\* add_edge; the cost argument is unused in DirectedGraph
add_edge(g, vertex_1, vertex_2) ==
    IF ~DictHas(g._predecessors, vertex_1) \/ ~DictHas(g._predecessors, vertex_2)
    THEN Outcome(g, "Invalid vertex!")
    ELSE IF ListIn(DictGet(g._successors, vertex_1), vertex_2)
    THEN Outcome(g, "Edge already exists!")
    ELSE LET p == DictSet(g._predecessors, vertex_2,
                          Append(DictGet(g._predecessors, vertex_2), vertex_1))
             s == DictSet(g._successors, vertex_1,
                          Append(DictGet(g._successors, vertex_1), vertex_2))
         IN  Outcome([_predecessors |-> p, _successors |-> s], NoError)

\* remove_edge; list.remove of an absent element raises ValueError before
\* anything is changed
remove_edge(g, vertex_1, vertex_2) ==
    IF ~DictHas(g._predecessors, vertex_1) \/ ~DictHas(g._predecessors, vertex_2)
    THEN Outcome(g, "Invalid vertex!")
    ELSE IF ~ListIn(DictGet(g._successors, vertex_1), vertex_2)
    THEN Outcome(g, "Edge does not exist!")
    ELSE IF ~ListIn(DictGet(g._predecessors, vertex_2), vertex_1)
    THEN Outcome(g, "ValueError")
    ELSE LET p == DictSet(g._predecessors, vertex_2,
                          ListRemove(DictGet(g._predecessors, vertex_2), vertex_1))
             s == DictSet(g._successors, vertex_1,
                          ListRemove(DictGet(g._successors, vertex_1), vertex_2))
         IN  Outcome([_predecessors |-> p, _successors |-> s], NoError)

----------------------------------------------------------------------------
\* WeightedDirectedGraph: a DirectedGraph with a mapping from the ordered
\* edge (source, target) to its cost.  The adjacency part is the one of
\* DirectedGraph; _costs is the mapping, a function on the pairs of
\* identifiers that are edges.
EmptyWeightedGraph == [_predecessors |-> <<>>, _successors |-> <<>>, _costs |-> <<>>]

Adjacency(g) == [_predecessors |-> g._predecessors, _successors |-> g._successors]

WithAdjacency(g, a) ==
    [_predecessors |-> a._predecessors, _successors |-> a._successors, _costs |-> g._costs]

CostSet(costs, edge, cost) ==
    [e \in DOMAIN costs \cup {edge} |-> IF e = edge THEN cost ELSE costs[e]]

\* add_vertex is the one of DirectedGraph
weighted_add_vertex(g, vertex) ==
    LET base == add_vertex(Adjacency(g), vertex)
    IN  Outcome(WithAdjacency(g, base.graph), base.raised)

\* add_edge(v1, v2, cost): the checks and the insertion of DirectedGraph,
\* then the cost is recorded
weighted_add_edge(g, vertex_1, vertex_2, cost) ==
    LET base == add_edge(Adjacency(g), vertex_1, vertex_2)
    IN  IF base.raised # NoError THEN Outcome(g, base.raised)
        ELSE Outcome([WithAdjacency(g, base.graph) EXCEPT
                         !._costs = CostSet(g._costs, <<vertex_1, vertex_2>>, cost)],
                     NoError)

\* get_edge_cost: InvalidVertex, then EdgeNotFound, then the recorded cost
get_edge_cost_raises(g, vertex_1, vertex_2) ==
    IF ~is_vertex(g, vertex_1) \/ ~is_vertex(g, vertex_2) THEN "Invalid vertex!"
    ELSE IF <<vertex_1, vertex_2>> \notin DOMAIN g._costs THEN "Edge does not exist!"
    ELSE NoError

get_edge_cost(g, vertex_1, vertex_2) == g._costs[<<vertex_1, vertex_2>>]

(***************************************************************************)
(* State of the program: the graph object the caller works on, the last    *)
(* call made on it with the exception it raised, the generator object the  *)
(* caller holds (get_inbound_vertices and get_outbound_vertices are        *)
(* generator functions), and the value the last call returned.  file is   *)
(* the text file write_to_file wrote, objects are the further graph        *)
(* objects of the program (the store that references point into), and ui   *)
(* holds the fields of the DirectedWeightedUi object.                      *)
(***************************************************************************)
VARIABLES graph, call, raised, gen, result, frame, file, objects, ui

vars == <<graph, call, raised, gen, result, frame, file, objects, ui>>

Call(op, args) == [op |-> op, args |-> args]

\* a returned value, tagged with its kind
Value(kind, value) == [kind |-> kind, value |-> value]
NoValue == Value("None", <<>>)

Generator(fn, vertex, pc, index) == [fn |-> fn, vertex |-> vertex, pc |-> pc, index |-> index]
\* the caller holds no generator object
NoGenerator == Generator(None, -1, None, 0)

\* the local variables of a call of generate_rand_weighted_directed_graph
\* that is under way, and the statement it is at
Frame(pc, vertices_added, added_edges, current_number_of_edges) ==
    [pc |-> pc, vertices |-> vertices_added, added_edges |-> added_edges,
     current_number_of_edges |-> current_number_of_edges]

NoFrame == Frame(None, <<>>, <<>>, 0)

\* a text file: whether it has been written, and its characters
File(written, text) == [written |-> written, text |-> text]
\* no file has been written
NoFile == File(FALSE, <<>>)

\* the reference None (references to graph objects are the positions 1, 2, ...
\* of objects)
NoObject == 0

\* the fields of a DirectedWeightedUi object
Ui(graph_ref, original_graph, is_copy) ==
    [graph |-> graph_ref, original_graph |-> original_graph, is_copy |-> is_copy]
\* no DirectedWeightedUi object has been constructed
NoUi == Ui(NoObject, NoObject, FALSE)

Init ==
    /\ graph = EmptyGraph
    /\ call = Call(None, <<>>)
    /\ raised = NoError
    /\ gen = NoGenerator
    /\ result = NoValue
    /\ frame = NoFrame
    /\ file = NoFile
    /\ objects = <<>>
    /\ ui = NoUi

\* A mutator call.  The caller does not mutate the graph while it holds a
\* generator over it (every loop over a generator in the repository runs to
\* its end before the graph is touched again).
Mutate(op, args, outcome) ==
    /\ gen = NoGenerator
    /\ graph' = outcome.graph
    /\ raised' = outcome.raised
    /\ call' = Call(op, args)
    /\ result' = NoValue
    /\ UNCHANGED <<gen, frame, file, objects, ui>>

AddVertex(vertex) == Mutate("add_vertex", <<vertex>>, add_vertex(graph, vertex))

RemoveVertex(vertex) == Mutate("remove_vertex", <<vertex>>, remove_vertex(graph, vertex))

AddEdge(vertex_1, vertex_2) ==
    /\ number_of_edges(add_edge(graph, vertex_1, vertex_2).graph) <= MaxEdges
    /\ Mutate("add_edge", <<vertex_1, vertex_2>>, add_edge(graph, vertex_1, vertex_2))

RemoveEdge(vertex_1, vertex_2) ==
    Mutate("remove_edge", <<vertex_1, vertex_2>>, remove_edge(graph, vertex_1, vertex_2))

(***************************************************************************)
(* get_inbound_vertices and get_outbound_vertices contain a yield: calling *)
(* them runs none of the body and returns a generator object; the body     *)
(* (the membership check first) runs when the first element is requested.  *)
(***************************************************************************)
\* the call itself: a new generator object, suspended before its first line
NewGenerator(fn, vertex) ==
    /\ gen = NoGenerator
    /\ gen' = Generator(fn, vertex, "created", 0)
    /\ call' = Call(fn, <<vertex>>)
    /\ raised' = NoError
    /\ result' = Value("generator", <<>>)
    /\ UNCHANGED <<graph, frame, file, objects, ui>>

GetInboundVertices(vertex) == NewGenerator("get_inbound_vertices", vertex)

GetOutboundVertices(vertex) == NewGenerator("get_outbound_vertices", vertex)

\* the list a generator iterates
GeneratorList(g, fn, vertex) ==
    IF fn = "get_inbound_vertices" THEN DictGet(g._predecessors, vertex)
                                   ELSE DictGet(g._successors, vertex)

\* next(generator): runs the body up to the next yield
GeneratorNext ==
    /\ gen # NoGenerator
    /\ call' = Call("next", <<gen.vertex>>)
    /\ UNCHANGED <<graph, frame, file, objects, ui>>
    /\ IF gen.pc = "closed"
       THEN raised' = "StopIteration" /\ result' = NoValue /\ UNCHANGED gen
       ELSE IF gen.pc = "created" /\ ~DictHas(graph._predecessors, gen.vertex)
       THEN /\ raised' = "Invalid vertex!"
            /\ result' = NoValue
            /\ gen' = [gen EXCEPT !.pc = "closed"]
       ELSE IF gen.index < Len(GeneratorList(graph, gen.fn, gen.vertex))
       THEN /\ raised' = NoError
            /\ result' = Value("Vertex", GeneratorList(graph, gen.fn, gen.vertex)[gen.index + 1])
            /\ gen' = [gen EXCEPT !.pc = "suspended", !.index = gen.index + 1]
       ELSE /\ raised' = "StopIteration"
            /\ result' = NoValue
            /\ gen' = [gen EXCEPT !.pc = "closed"]

\* the caller is done with the generator object
GeneratorClose ==
    /\ gen # NoGenerator
    /\ gen' = NoGenerator
    /\ call' = Call("close", <<gen.vertex>>)
    /\ raised' = NoError
    /\ result' = NoValue
    /\ UNCHANGED <<graph, frame, file, objects, ui>>

Next ==
    \/ \E v \in VertexIds : AddVertex(v)
    \/ \E v \in VertexIds : RemoveVertex(v)
    \/ \E v1, v2 \in VertexIds : AddEdge(v1, v2)
    \/ \E v1, v2 \in VertexIds : RemoveEdge(v1, v2)
    \/ \E v \in VertexIds : GetInboundVertices(v)
    \/ \E v \in VertexIds : GetOutboundVertices(v)
    \/ GeneratorNext
    \/ GeneratorClose

Spec == Init /\ [][Next]_vars

(***************************************************************************)
(* The algorithm suite.  The algorithms read the graph through             *)
(* "for x in graph.get_outbound_vertices(v)" loops that run to their end   *)
(* with the graph untouched, so a loop sees the list of v as it stands.    *)
(***************************************************************************)
\* the elements get_outbound_vertices / get_inbound_vertices yield for a
\* vertex of the graph, in order
get_outbound_vertices(g, vertex) == GeneratorList(g, "get_outbound_vertices", vertex)
get_inbound_vertices(g, vertex) == GeneratorList(g, "get_inbound_vertices", vertex)

\* what a function call ends with: the exception raised and the value returned
Return(value) == [raised |-> NoError, value |-> value]
Raise(e) == [raised |-> e, value |-> <<>>]

----------------------------------------------------------------------------
\* accessible_vertices_weighted_directed

RECURSIVE dfs(_, _, _), dfs_neighbors(_, _, _, _)
\* dfs(graph, vertex, visited): the visited set after the call
dfs(g, vertex, visited) ==
    IF vertex \in visited THEN visited
    ELSE dfs_neighbors(g, get_outbound_vertices(g, vertex), 1, visited \cup {vertex})

\* the loop "for neighbor in ...: dfs(graph, neighbor, visited)" from its i-th element
dfs_neighbors(g, neighbors, i, visited) ==
    IF i > Len(neighbors) THEN visited
    ELSE dfs_neighbors(g, neighbors, i + 1, dfs(g, neighbors[i], visited))

\* accessible_vertices without the recursion of dfs
accessible_vertices_direct_successors_only(g, vertex) ==
    IF ~is_vertex(g, vertex) THEN Raise("Vertex not in graph!")
    ELSE Return({vertex} \cup ListElems(get_outbound_vertices(g, vertex)))

accessible_vertices(g, vertex) ==
    IF ~is_vertex(g, vertex) THEN Raise("Vertex not in graph!")
    ELSE Return(dfs(g, vertex, {}))

----------------------------------------------------------------------------
\* shortest_path_weighted_directed

\* the loop "for neighbor in graph.get_outbound_vertices(current)" of bfs
\* from its i-th element; dist is the dict as a function on its keys
RECURSIVE bfs_neighbors(_, _, _, _, _)
bfs_neighbors(neighbors, i, current, dist, queue) ==
    IF i > Len(neighbors) THEN [dist |-> dist, queue |-> queue]
    ELSE IF neighbors[i] \notin DOMAIN dist
    THEN bfs_neighbors(neighbors, i + 1, current,
                       dist @@ (neighbors[i] :> dist[current] + 1),
                       Append(queue, neighbors[i]))
    ELSE bfs_neighbors(neighbors, i + 1, current, dist, queue)

\* "while queue: current = queue.pop(0) ..."
RECURSIVE bfs_while(_, _, _)
bfs_while(g, dist, queue) ==
    IF queue = <<>> THEN dist
    ELSE LET current == Head(queue)
             step == bfs_neighbors(get_outbound_vertices(g, current), 1, current, dist,
                                   Tail(queue))
         IN  bfs_while(g, step.dist, step.queue)

bfs(g, start) == bfs_while(g, (start :> 0), <<start>>)

\* the test "dist[vertex] == current_length" left out
FirstInDist(inbound, dist, current_length) ==
    LET hits == {i \in 1 .. Len(inbound) : inbound[i] \in DOMAIN dist}
    IN  IF hits = {} THEN 0 ELSE CHOOSE i \in hits : \A j \in hits : i <= j

\* the last inbound vertex at distance current_length instead of the first
LastAtDistance(inbound, dist, current_length) ==
    LET hits == {i \in 1 .. Len(inbound) :
                    inbound[i] \in DOMAIN dist /\ dist[inbound[i]] = current_length}
    IN  IF hits = {} THEN 0 ELSE CHOOSE i \in hits : \A j \in hits : i >= j

\* the position of the first inbound vertex at distance current_length, 0 if none
FirstAtDistance(inbound, dist, current_length) ==
    LET hits == {i \in 1 .. Len(inbound) :
                    inbound[i] \in DOMAIN dist /\ dist[inbound[i]] = current_length}
    IN  IF hits = {} THEN 0 ELSE CHOOSE i \in hits : \A j \in hits : i <= j

\* "while current_length: ..." ; walk is built from end towards start
RECURSIVE walk_while(_, _, _, _, _)
walk_while(g, dist, walk, current_length, current_vertex) ==
    IF current_length = 0 THEN walk
    ELSE LET inbound == get_inbound_vertices(g, current_vertex)
             i == FirstAtDistance(inbound, dist, current_length - 1)
         IN  IF i = 0
             THEN walk_while(g, dist, walk, current_length - 1, current_vertex)
             ELSE walk_while(g, dist, Append(walk, inbound[i]), current_length - 1, inbound[i])

\* list.reverse
Reverse(l) == [i \in 1 .. Len(l) |-> l[Len(l) + 1 - i]]

shortest_path(g, start, end) ==
    IF ~is_vertex(g, start) \/ ~is_vertex(g, end) THEN Raise("Vertex not in graph!")
    ELSE LET dist == bfs(g, start)
         IN  IF end \notin DOMAIN dist THEN Return(<<>>)
             ELSE Return(Reverse(walk_while(g, dist, <<end>>, dist[end], end)))

----------------------------------------------------------------------------
\* strongly_connected_tarjan_weighted_directed
\*
\* discovered, low and stack_member are Python lists of length
\* graph.number_of_vertices indexed by vertex.value: functions on
\* 0 .. n-1.  An index outside that range raises IndexError.  The lists,
\* the stack and connected_components are shared by all the calls of
\* implementation; discovery_time is an int, passed by value.
Min(a, b) == IF a <= b THEN a ELSE b

InIndexRange(lst, index) == index \in DOMAIN lst

\* the two loops that copy into new_component the edges between
\* extracted_vertex and the vertices already in new_component; a GraphError
\* of add_edge is caught and dropped ("except GraphError: pass")
\* "try: new_component.add_edge(v1, v2, graph.get_edge_cost(v1, v2))
\*  except GraphError: pass"
copy_edge(g, new_component, vertex_1, vertex_2) ==
    IF get_edge_cost_raises(g, vertex_1, vertex_2) # NoError THEN new_component
    ELSE weighted_add_edge(new_component, vertex_1, vertex_2,
                           get_edge_cost(g, vertex_1, vertex_2)).graph

RECURSIVE add_outbound_edges(_, _, _, _, _)
add_outbound_edges(new_component, g, extracted_vertex, neighbors, i) ==
    IF i > Len(neighbors) THEN new_component
    ELSE IF is_vertex(new_component, neighbors[i])
    THEN add_outbound_edges(copy_edge(g, new_component, extracted_vertex, neighbors[i]),
                            g, extracted_vertex, neighbors, i + 1)
    ELSE add_outbound_edges(new_component, g, extracted_vertex, neighbors, i + 1)

\* the loop over the inbound vertices left out
add_inbound_edges_skipped(new_component, g, extracted_vertex, neighbors, i) == new_component

RECURSIVE add_inbound_edges(_, _, _, _, _)
add_inbound_edges(new_component, g, extracted_vertex, neighbors, i) ==
    IF i > Len(neighbors) THEN new_component
    ELSE IF is_vertex(new_component, neighbors[i])
    THEN add_inbound_edges(copy_edge(g, new_component, neighbors[i], extracted_vertex),
                           g, extracted_vertex, neighbors, i + 1)
    ELSE add_inbound_edges(new_component, g, extracted_vertex, neighbors, i + 1)

\* an "if" in place of the "while": one vertex is popped
pop_component_once(g, vertex, extracted_value, new_component, st) ==
    IF st.stack = <<>> THEN [st EXCEPT !.raised = "IndexError"]
    ELSE LET extracted == st.stack[Len(st.stack)]
             added == weighted_add_vertex(new_component, extracted)
             c1 == add_outbound_edges(added.graph, g, extracted,
                                      get_outbound_vertices(g, extracted), 1)
             c2 == add_inbound_edges(c1, g, extracted, get_inbound_vertices(g, extracted), 1)
         IN  IF ~InIndexRange(st.stack_member, extracted)
             THEN [st EXCEPT !.raised = "IndexError"]
             ELSE [st EXCEPT !.stack = SubSeq(@, 1, Len(@) - 1),
                             !.stack_member[extracted] = FALSE,
                             !.connected_components = Append(@, c2)]

\* "while extracted_value != vertex.value: extracted_value = stack.pop() ..."
\* entered with extracted_value = -1; st is the shared state, and the
\* result is st with the new component appended
RECURSIVE pop_component(_, _, _, _, _)
pop_component(g, vertex, extracted_value, new_component, st) ==
    IF extracted_value = vertex
    THEN [st EXCEPT !.connected_components = Append(@, new_component)]
    ELSE IF st.stack = <<>> THEN [st EXCEPT !.raised = "IndexError"]
    ELSE LET extracted == st.stack[Len(st.stack)]
             added == weighted_add_vertex(new_component, extracted)
         IN  IF added.raised # NoError
             THEN [st EXCEPT !.stack = SubSeq(@, 1, Len(@) - 1), !.raised = added.raised]
             ELSE IF ~InIndexRange(st.stack_member, extracted)
             THEN [st EXCEPT !.stack = SubSeq(@, 1, Len(@) - 1), !.raised = "IndexError"]
             ELSE LET c1 == add_outbound_edges(added.graph, g, extracted,
                                               get_outbound_vertices(g, extracted), 1)
                      c2 == add_inbound_edges(c1, g, extracted,
                                              get_inbound_vertices(g, extracted), 1)
                  IN  pop_component(g, vertex, extracted, c2,
                                    [st EXCEPT !.stack = SubSeq(@, 1, Len(@) - 1),
                                               !.stack_member[extracted] = FALSE])

RECURSIVE implementation(_, _, _, _), implementation_neighbors(_, _, _, _, _, _)
\* implementation(vertex, discovery_time, ...): the shared state after the call
implementation(g, vertex, discovery_time, st) ==
    IF ~InIndexRange(st.discovered, vertex) THEN [st EXCEPT !.raised = "IndexError"]
    ELSE LET entered == [st EXCEPT !.discovered[vertex] = discovery_time,
                                   !.low[vertex] = discovery_time,
                                   !.stack_member[vertex] = TRUE,
                                   !.stack = Append(@, vertex)]
             looped == implementation_neighbors(g, vertex, discovery_time + 1,
                                                get_outbound_vertices(g, vertex), 1, entered)
         IN  IF looped.raised # NoError THEN looped
             ELSE IF looped.low[vertex] = looped.discovered[vertex]
             THEN pop_component(g, vertex, -1, EmptyWeightedGraph, looped)
             ELSE looped

\* "for neighbor in graph.get_outbound_vertices(vertex): ..." from its i-th
\* element, discovery_time being the caller's local (already incremented)
implementation_neighbors(g, vertex, discovery_time, neighbors, i, st) ==
    IF i > Len(neighbors) THEN st
    ELSE LET neighbor == neighbors[i]
         IN  IF ~InIndexRange(st.discovered, neighbor) THEN [st EXCEPT !.raised = "IndexError"]
             ELSE IF st.discovered[neighbor] = -1
             THEN LET after == implementation(g, neighbor, discovery_time, st)
                  IN  IF after.raised # NoError THEN after
                      ELSE implementation_neighbors(g, vertex, discovery_time, neighbors, i + 1,
                              [after EXCEPT !.low[vertex] = Min(@, after.low[neighbor])])
             ELSE IF st.stack_member[neighbor]
             THEN implementation_neighbors(g, vertex, discovery_time, neighbors, i + 1,
                      [st EXCEPT !.low[vertex] = Min(@, st.discovered[neighbor])])
             ELSE implementation_neighbors(g, vertex, discovery_time, neighbors, i + 1, st)

\* "for vertex in graph.vertices: if discovered[vertex.value] == -1: ..."
\* from the i-th vertex; every call is made with discovery_time = 0, the
\* outer variable never being assigned again
RECURSIVE tarjan_roots(_, _, _, _)
tarjan_roots(g, vs, i, st) ==
    IF i > Len(vs) \/ st.raised # NoError THEN st
    ELSE IF ~InIndexRange(st.discovered, vs[i]) THEN [st EXCEPT !.raised = "IndexError"]
    ELSE IF st.discovered[vs[i]] = -1
    THEN tarjan_roots(g, vs, i + 1, implementation(g, vs[i], 0, st))
    ELSE tarjan_roots(g, vs, i + 1, st)

strongly_connected_tarjan(g) ==
    LET n == number_of_vertices(g)
        st0 == [discovered |-> [x \in 0 .. (n - 1) |-> -1],
                low |-> [x \in 0 .. (n - 1) |-> -1],
                stack_member |-> [x \in 0 .. (n - 1) |-> FALSE],
                stack |-> <<>>,
                connected_components |-> <<>>,
                raised |-> NoError]
        st == tarjan_roots(g, vertices(g), 1, st0)
    IN  IF st.raised # NoError THEN Raise(st.raised) ELSE Return(st.connected_components)

(***************************************************************************)
(* The algorithms as calls on a graph the caller has built: the graph is   *)
(* any graph obtained from the empty graph by add_vertex calls followed by *)
(* add_edge calls in any order.  The vertices are added in increasing      *)
(* order of identifier: the algorithms use an identifier only to compare   *)
(* it or to index a list with it, so a graph whose identifiers are 0..V-1  *)
(* added in another order is one of these with its vertices renamed.       *)
(***************************************************************************)
AlgVertexIds == 0 .. (AlgVertices - 1)

AlgCosts == 1 .. AlgMaxCost

RECURSIVE GraphsAfterAddVertex(_)
GraphsAfterAddVertex(k) ==
    IF k = 0 THEN {EmptyWeightedGraph}
    ELSE LET before == GraphsAfterAddVertex(k - 1)
         IN  before \cup
             UNION {{weighted_add_vertex(g, v).graph :
                        v \in {x \in AlgVertexIds :
                                  \A y \in DictKeys(g._predecessors) : y < x}} :
                    g \in before}

RECURSIVE GraphsAfterAddEdge(_)
GraphsAfterAddEdge(k) ==
    IF k = 0 THEN GraphsAfterAddVertex(AlgVertices)
    ELSE LET before == GraphsAfterAddEdge(k - 1)
         IN  before \cup {weighted_add_edge(g, v1, v2, cost).graph :
                             g \in before, v1 \in AlgVertexIds, v2 \in AlgVertexIds,
                             cost \in AlgCosts}

GraphInputs == GraphsAfterAddEdge(AlgEdges)

InitAlg ==
    /\ graph \in GraphInputs
    /\ call = Call(None, <<>>)
    /\ raised = NoError
    /\ gen = NoGenerator
    /\ result = NoValue
    /\ frame = NoFrame
    /\ file = NoFile
    /\ objects = <<>>
    /\ ui = NoUi

\* What a call of an algorithm function can do to the graph handed to it:
\* the function holds a reference to the caller's object, and changes it
\* exactly when it calls a method on it that assigns to one of its fields.
\*
\* the methods the body of an algorithm function calls on its parameter
\* graph (the graphs that strongly_connected_tarjan builds with add_vertex
\* and add_edge are new objects, "new_component = WeightedDirectedGraph()")
methods_called_on_graph_or_component(op) ==
    IF op = "strongly_connected_tarjan"
    THEN {"number_of_vertices", "vertices", "get_outbound_vertices",
          "get_inbound_vertices", "get_edge_cost", "add_vertex", "add_edge"}
    ELSE {"is_vertex", "get_outbound_vertices"}

methods_called_on_graph(op) ==
    CASE op = "accessible_vertices" -> {"is_vertex", "get_outbound_vertices"}
      [] op = "shortest_path" ->
             {"is_vertex", "get_outbound_vertices", "get_inbound_vertices"}
      [] op = "strongly_connected_tarjan" ->
             {"number_of_vertices", "vertices", "get_outbound_vertices",
              "get_inbound_vertices", "get_edge_cost"}
      [] op = "lowest_cost_path_matrix" ->
             {"is_vertex", "number_of_vertices", "vertices", "get_outbound_vertices",
              "get_edge_cost"}
      [] op = "get_path_from_matrix" ->
             {"is_vertex", "get_outbound_vertices", "get_edge_cost"}
      [] op = "number_of_distinct_minimum_cost_walks" ->
             {"is_vertex", "vertices", "get_outbound_vertices", "get_edge_cost"}
      [] op = "number_of_distinct_walks" ->
             {"is_vertex", "vertices", "get_outbound_vertices"}

\* the fields of the graph object that a method assigns to or changes in
\* place; the properties and the methods that only read have none
fields_assigned(method) ==
    CASE method \in {"add_vertex", "remove_vertex"} -> {"_predecessors", "_successors"}
      [] method \in {"add_edge", "remove_edge"} ->
             {"_predecessors", "_successors", "_costs"}
      [] method = "set_edge_cost" -> {"_costs"}
      [] OTHER -> {}

\* the graphs the object can be after assignments to the given fields: a
\* field not assigned to is as before
graphs_after(g, fields) ==
    {[_predecessors |-> IF "_predecessors" \in changed THEN <<>> ELSE g._predecessors,
      _successors |-> IF "_successors" \in changed THEN <<>> ELSE g._successors,
      _costs |-> IF "_costs" \in changed THEN <<>> ELSE g._costs] :
         changed \in SUBSET fields}

\* a call of an algorithm function
Apply(op, args, kind, outcome) ==
    /\ call' = Call(op, args)
    /\ raised' = outcome.raised
    /\ result' = IF outcome.raised = NoError THEN Value(kind, outcome.value) ELSE NoValue
    /\ graph' \in graphs_after(graph,
                       UNION {fields_assigned(method) : method \in methods_called_on_graph(op)})
    /\ UNCHANGED <<gen, frame, file, objects, ui>>

AccessibleVertices(vertex) ==
    Apply("accessible_vertices", <<vertex>>, "set", accessible_vertices(graph, vertex))

ShortestPath(start, end) ==
    Apply("shortest_path", <<start, end>>, "walk", shortest_path(graph, start, end))

StronglyConnectedTarjan ==
    Apply("strongly_connected_tarjan", <<>>, "components", strongly_connected_tarjan(graph))

NextAlg ==
    \/ \E v \in AlgVertexIds : AccessibleVertices(v)
    \/ \E s, e \in AlgVertexIds : ShortestPath(s, e)
    \/ StronglyConnectedTarjan

SpecAlg == InitAlg /\ [][NextAlg]_vars

----------------------------------------------------------------------------
\* lowest_cost_path_matrix_weighted_directed
\*
\* A matrix is a numpy array of shape (V, V): a function on 0 .. V-1 of
\* functions on 0 .. V-1.  An index outside 0 .. V-1 raises IndexError.

\* numpy.inf: larger than the cost of every walk the algorithm adds up
inf == 1000000

\* float addition: inf plus a finite number is inf
Plus(a, b) == IF a = inf \/ b = inf THEN inf ELSE a + b

\* numpy.full((n, n), numpy.inf)
full(n) == [i \in 0 .. (n - 1) |-> [j \in 0 .. (n - 1) |-> inf]]

\* the outcome of a loop that never ends: the call does not return
NoReturn == "no return"

\* "for neighbor in graph.get_outbound_vertices(vertex)" of the adjacency
\* matrix; m is the matrix so far and the exception raised
RECURSIVE adj_matrix_neighbors(_, _, _, _, _)
adj_matrix_neighbors(g, vertex, neighbors, i, m) ==
    IF i > Len(neighbors) \/ m.raised # NoError THEN m
    ELSE LET neighbor == neighbors[i]
         IN  IF get_edge_cost_raises(g, vertex, neighbor) # NoError
             THEN [m EXCEPT !.raised = get_edge_cost_raises(g, vertex, neighbor)]
             ELSE IF vertex = neighbor /\ get_edge_cost(g, vertex, neighbor) < 0
             THEN [m EXCEPT !.raised = "Negative cycle detected!"]
             ELSE IF ~InIndexRange(m.matrix, vertex) \/ ~InIndexRange(m.matrix, neighbor)
             THEN [m EXCEPT !.raised = "IndexError"]
             ELSE adj_matrix_neighbors(g, vertex, neighbors, i + 1,
                      [m EXCEPT !.matrix[vertex][neighbor] = get_edge_cost(g, vertex, neighbor)])

\* "for vertex in graph.vertices", ending with the diagonal entry set to 0
RECURSIVE adj_matrix_vertices(_, _, _, _)
adj_matrix_vertices(g, vs, i, m) ==
    IF i > Len(vs) \/ m.raised # NoError THEN m
    ELSE LET row == adj_matrix_neighbors(g, vs[i], get_outbound_vertices(g, vs[i]), 1, m)
         IN  IF row.raised # NoError THEN row
             ELSE IF ~InIndexRange(row.matrix, vs[i]) THEN [row EXCEPT !.raised = "IndexError"]
             ELSE adj_matrix_vertices(g, vs, i + 1, [row EXCEPT !.matrix[vs[i]][vs[i]] = 0])

adj_matrix(g) ==
    adj_matrix_vertices(g, vertices(g), 1,
                        [matrix |-> full(number_of_vertices(g)), raised |-> NoError])

\* "for k in range(V): result[i][j] = min(result[i][j], prev[i][k] + adj[k][j])"
RECURSIVE multiply_entry(_, _, _, _, _, _, _)
multiply_entry(previous, adj, n, i, j, k, entry) ==
    IF k >= n THEN entry
    ELSE multiply_entry(previous, adj, n, i, j, k + 1,
                        Min(entry, Plus(previous[i][k], adj[k][j])))

\* no product: the new matrix is the previous one
multiply_keeps_previous(previous, adj, n) == previous

\* the result matrix of one power: every entry starts at inf
multiply(previous, adj, n) ==
    [i \in 0 .. (n - 1) |-> [j \in 0 .. (n - 1) |->
        multiply_entry(previous, adj, n, i, j, 0, inf)]]

\* the powers computed without the check of the diagonal
RECURSIVE intermediate_matrices_unchecked(_, _, _, _)
intermediate_matrices_unchecked(adj, n, power, matrices) ==
    IF power >= n THEN Return(matrices)
    ELSE intermediate_matrices_unchecked(adj, n, power + 1,
             Append(matrices, multiply(matrices[power], adj, n)))

\* "for power in range(1, V)": the list of matrices, the one of Python
\* index power - 1 being matrices[power]; a negative diagonal entry of
\* the new matrix raises
RECURSIVE intermediate_matrices(_, _, _, _)
intermediate_matrices(adj, n, power, matrices) ==
    IF power >= n THEN Return(matrices)
    ELSE LET result_matrix == multiply(matrices[power], adj, n)
         IN  IF \E i \in 0 .. (n - 1) : result_matrix[i][i] < 0
             THEN Raise("Negative cycle detected!")
             ELSE intermediate_matrices(adj, n, power + 1, Append(matrices, result_matrix))

\* "for neighbor in graph.get_outbound_vertices(current_vertex)" of the
\* reconstruction: the visited test comes before the cost test
RECURSIVE path_neighbors(_, _, _, _, _, _, _)
path_neighbors(g, matrix, end, current_vertex, visited, neighbors, i) ==
    IF i > Len(neighbors) THEN [kind |-> "exhausted", vertex |-> current_vertex]
    ELSE IF neighbors[i] \in visited /\ neighbors[i] # current_vertex
    THEN [kind |-> "raise", vertex |-> neighbors[i]]
    ELSE IF matrix[current_vertex][end]
              = Plus(matrix[neighbors[i]][end], get_edge_cost(g, current_vertex, neighbors[i]))
    THEN [kind |-> "break", vertex |-> neighbors[i]]
    ELSE path_neighbors(g, matrix, end, current_vertex, visited, neighbors, i + 1)

\* "while current_vertex != end".  One iteration is a function of
\* current_vertex and visited: when the for loop ends without break, or
\* picks current_vertex itself (a self-loop), the next iteration is the
\* same one again and the loop never ends.
RECURSIVE build_path(_, _, _, _, _, _)
build_path(g, matrix, end, current_vertex, visited, walk) ==
    IF current_vertex = end THEN Return(walk)
    ELSE LET seen == visited \cup {current_vertex}
             picked == path_neighbors(g, matrix, end, current_vertex, seen,
                                      get_outbound_vertices(g, current_vertex), 1)
         IN  IF picked.kind = "raise" THEN Raise("Negative cycle detected!")
             ELSE IF picked.kind = "exhausted" \/ picked.vertex = current_vertex
             THEN Raise(NoReturn)
             ELSE build_path(g, matrix, end, picked.vertex, seen, Append(walk, picked.vertex))

\* the endpoints looked up after the adjacency matrix has been built
lowest_cost_path_matrix_checks_late(g, start, end) ==
    LET adj == adj_matrix(g)
    IN  IF adj.raised # NoError THEN Raise(adj.raised)
        ELSE Raise("Vertex not in graph!")

lowest_cost_path_matrix(g, start, end) ==
    IF ~is_vertex(g, start) \/ ~is_vertex(g, end) THEN Raise("Vertex not in graph!")
    ELSE LET n == number_of_vertices(g)
             adj == adj_matrix(g)
         IN  IF adj.raised # NoError THEN Raise(adj.raised)
             ELSE LET powers == intermediate_matrices(adj.matrix, n, 1, <<adj.matrix>>)
                  IN  IF powers.raised # NoError THEN powers
                      ELSE IF powers.value[Len(powers.value)][start][end] = inf
                      THEN Return([walk |-> <<>>, matrices |-> powers.value])
                      ELSE LET path == build_path(g, powers.value[Len(powers.value)],
                                                  end, start, {}, <<start>>)
                           IN  IF path.raised # NoError THEN path
                               ELSE Return([walk |-> path.value, matrices |-> powers.value])

----------------------------------------------------------------------------
\* get_path_from_matrix: the reconstruction once more, on a matrix handed in

\* the visited test made only on the successor that satisfies the cost test
RECURSIVE get_path_neighbors_cost_first(_, _, _, _, _, _, _)
get_path_neighbors_cost_first(g, matrix, end, current_vertex, visited, neighbors, i) ==
    IF i > Len(neighbors) THEN [kind |-> "exhausted", vertex |-> current_vertex]
    ELSE IF matrix[current_vertex][end]
              = Plus(matrix[neighbors[i]][end], get_edge_cost(g, current_vertex, neighbors[i]))
    THEN IF neighbors[i] \in visited /\ neighbors[i] # current_vertex
         THEN [kind |-> "raise", vertex |-> neighbors[i]]
         ELSE [kind |-> "break", vertex |-> neighbors[i]]
    ELSE get_path_neighbors_cost_first(g, matrix, end, current_vertex, visited, neighbors,
                                       i + 1)

\* "for neighbor in graph.get_outbound_vertices(current_vertex)"
RECURSIVE get_path_neighbors(_, _, _, _, _, _, _)
get_path_neighbors(g, matrix, end, current_vertex, visited, neighbors, i) ==
    IF i > Len(neighbors) THEN [kind |-> "exhausted", vertex |-> current_vertex]
    ELSE IF neighbors[i] \in visited /\ neighbors[i] # current_vertex
    THEN [kind |-> "raise", vertex |-> neighbors[i]]
    ELSE IF matrix[current_vertex][end]
              = Plus(matrix[neighbors[i]][end], get_edge_cost(g, current_vertex, neighbors[i]))
    THEN [kind |-> "break", vertex |-> neighbors[i]]
    ELSE get_path_neighbors(g, matrix, end, current_vertex, visited, neighbors, i + 1)

\* "while current_vertex != end", which never ends when an iteration leaves
\* current_vertex as it is (see build_path)
RECURSIVE get_path_while(_, _, _, _, _, _)
get_path_while(g, matrix, end, current_vertex, visited, walk) ==
    IF current_vertex = end THEN Return(walk)
    ELSE LET seen == visited \cup {current_vertex}
             picked == get_path_neighbors(g, matrix, end, current_vertex, seen,
                                          get_outbound_vertices(g, current_vertex), 1)
         IN  IF picked.kind = "raise" THEN Raise("Negative cycle detected!")
             ELSE IF picked.kind = "exhausted" \/ picked.vertex = current_vertex
             THEN Raise(NoReturn)
             ELSE get_path_while(g, matrix, end, picked.vertex, seen,
                                 Append(walk, picked.vertex))

get_path_from_matrix(g, matrix, start, end) ==
    IF ~is_vertex(g, start) \/ ~is_vertex(g, end) THEN Raise("Vertex not in graph!")
    ELSE IF matrix[start][end] = inf THEN Return(<<>>)
    ELSE get_path_while(g, matrix, end, start, {}, <<start>>)

----------------------------------------------------------------------------
\* number_of_distinct_minimum_cost_walks_weighted_directed
\*
\* distances and counts are dicts keyed by vertex: functions on the
\* vertices.  queue is a heapq heap of (cost, vertex) tuples: a list of
\* which heappop removes the least tuple, the cost compared first and then
\* the vertex; the place of a tuple in the list is not observable.
TupleLessEq(a, b) == a[1] < b[1] \/ (a[1] = b[1] /\ a[2] <= b[2])

\* the index of the tuple that heapq.heappop removes
heappop(queue) ==
    CHOOSE i \in 1 .. Len(queue) :
        \A j \in 1 .. Len(queue) :
            TupleLessEq(queue[i], queue[j]) /\ (queue[j] = queue[i] => i <= j)

RemoveAt(l, i) == SubSeq(l, 1, i - 1) \o SubSeq(l, i + 1, Len(l))

\* "for neighbor in graph.get_outbound_vertices(current_vertex)"
RECURSIVE relax_neighbors(_, _, _, _, _, _)
relax_neighbors(g, current_cost, current_vertex, neighbors, i, st) ==
    IF i > Len(neighbors) THEN st
    ELSE LET neighbor == neighbors[i]
             new_cost == current_cost + get_edge_cost(g, current_vertex, neighbor)
         IN  IF new_cost < st.distances[neighbor]
             THEN relax_neighbors(g, current_cost, current_vertex, neighbors, i + 1,
                      [st EXCEPT !.distances[neighbor] = new_cost,
                                 !.counts[neighbor] = st.counts[current_vertex],
                                 !.queue = Append(@, <<new_cost, neighbor>>)])
             ELSE IF new_cost = st.distances[neighbor]
             THEN relax_neighbors(g, current_cost, current_vertex, neighbors, i + 1,
                      [st EXCEPT !.counts[neighbor] = @ + st.counts[current_vertex]])
             ELSE relax_neighbors(g, current_cost, current_vertex, neighbors, i + 1, st)

\* The cost of a walk without a repeated vertex is at least the sum of the
\* negative edge costs of the graph.
RECURSIVE SumOfNegativeCosts(_, _)
SumOfNegativeCosts(costs, edges) ==
    IF edges = {} THEN 0
    ELSE LET edge == CHOOSE x \in edges : TRUE
         IN  Min(costs[edge], 0) + SumOfNegativeCosts(costs, edges \ {edge})

\* A distance below that sum is the cost of a walk from start that goes
\* round a cycle of negative cost.  With such a cycle in reach the loop
\* never ends: were the queue empty, every edge (u, v) out of a reached
\* vertex would satisfy distances[v] <= distances[u] + cost(u, v), and
\* adding these up round the cycle gives 0 <= the cost of the cycle.
diverges(g, st) ==
    \E v \in DOMAIN st.distances :
        st.distances[v] < SumOfNegativeCosts(g._costs, DOMAIN g._costs)

\* "while queue": an entry whose cost is above the distance recorded for
\* its vertex is dropped.  The state is returned with a non-empty queue
\* when the loop never ends.
RECURSIVE queue_while(_, _)
queue_while(g, st) ==
    IF st.queue = <<>> \/ diverges(g, st) THEN st
    ELSE LET current == st.queue[heappop(st.queue)]
             popped == [st EXCEPT !.queue = RemoveAt(@, heappop(st.queue))]
         IN  IF current[1] > popped.distances[current[2]] THEN queue_while(g, popped)
             ELSE queue_while(g, relax_neighbors(g, current[1], current[2],
                                     get_outbound_vertices(g, current[2]), 1, popped))

number_of_distinct_minimum_cost_walks(g, start, end) ==
    IF ~is_vertex(g, start) \/ ~is_vertex(g, end) THEN Raise("Vertex not in graph!")
    ELSE LET V == DictKeys(g._predecessors)
             st == [distances |-> [v \in V |-> IF v = start THEN 0 ELSE inf],
                    counts |-> [v \in V |-> IF v = start THEN 1 ELSE 0],
                    queue |-> << <<0, start>> >>]
             final == queue_while(g, st)
         IN  IF final.queue # <<>> THEN Raise(NoReturn)
             ELSE Return(final.counts[end])

----------------------------------------------------------------------------
\* number_of_distinct_walks_weighted_directed
\*
\* topological_sort: visited and ordering are shared by the calls of dfs
RECURSIVE topological_sort_dfs(_, _, _)
RECURSIVE topological_sort_dfs_neighbors(_, _, _, _)
topological_sort_dfs(g, vertex, st) ==
    LET after == topological_sort_dfs_neighbors(g, get_outbound_vertices(g, vertex), 1,
                     [st EXCEPT !.visited = @ \cup {vertex}])
    IN  [after EXCEPT !.ordering = Append(@, vertex)]

topological_sort_dfs_neighbors(g, neighbors, i, st) ==
    IF i > Len(neighbors) THEN st
    ELSE IF neighbors[i] \notin st.visited
    THEN topological_sort_dfs_neighbors(g, neighbors, i + 1,
                                        topological_sort_dfs(g, neighbors[i], st))
    ELSE topological_sort_dfs_neighbors(g, neighbors, i + 1, st)

\* "for vertex in graph.vertices: if vertex not in visited: dfs(...)"
RECURSIVE topological_sort_roots(_, _, _, _)
topological_sort_roots(g, vs, i, st) ==
    IF i > Len(vs) THEN st
    ELSE IF vs[i] \notin st.visited
    THEN topological_sort_roots(g, vs, i + 1, topological_sort_dfs(g, vs[i], st))
    ELSE topological_sort_roots(g, vs, i + 1, st)

\* "ordering.reverse()" left out
topological_sort_not_reversed(g) ==
    topological_sort_roots(g, vertices(g), 1, [visited |-> {}, ordering |-> <<>>]).ordering

topological_sort(g) ==
    Reverse(topological_sort_roots(g, vertices(g), 1,
                                   [visited |-> {}, ordering |-> <<>>]).ordering)

\* "for neighbor in graph.get_outbound_vertices(vertex):
\*      counts[neighbor] += counts[vertex]"
RECURSIVE add_counts(_, _, _, _)
add_counts(vertex, neighbors, i, counts) ==
    IF i > Len(neighbors) THEN counts
    ELSE add_counts(vertex, neighbors, i + 1,
                    [counts EXCEPT ![neighbors[i]] = @ + counts[vertex]])

\* "for vertex in ordering"
RECURSIVE propagate_counts(_, _, _, _)
propagate_counts(g, ordering, i, counts) ==
    IF i > Len(ordering) THEN counts
    ELSE propagate_counts(g, ordering, i + 1,
                          add_counts(ordering[i], get_outbound_vertices(g, ordering[i]), 1, counts))

number_of_distinct_walks(g, start, end) ==
    IF ~is_vertex(g, start) \/ ~is_vertex(g, end) THEN Raise("Vertex not in graph!")
    ELSE LET counts == [v \in DictKeys(g._predecessors) |-> IF v = start THEN 1 ELSE 0]
         IN  Return(propagate_counts(g, topological_sort(g), 1, counts)[end])

(***************************************************************************)
(* The cost-based algorithms as calls on a graph the caller has built      *)
(* with add_vertex and add_edge(v1, v2, cost), the cost of an edge being   *)
(* any integer of -WMaxCost .. WMaxCost.  The vertices are added in        *)
(* increasing order of identifier, as above.                               *)
(***************************************************************************)
WVertexIds == 0 .. (WVertices - 1)

WCosts == (0 - WMaxCost) .. WMaxCost

RECURSIVE BuiltByAddVertex(_, _)
BuiltByAddVertex(ids, k) ==
    IF k = 0 THEN {EmptyWeightedGraph}
    ELSE LET before == BuiltByAddVertex(ids, k - 1)
         IN  before \cup
             UNION {{weighted_add_vertex(g, v).graph :
                        v \in {x \in ids : \A y \in DictKeys(g._predecessors) : y < x}} :
                    g \in before}

RECURSIVE BuiltByAddEdge(_, _, _, _)
BuiltByAddEdge(ids, costs, nv, k) ==
    IF k = 0 THEN BuiltByAddVertex(ids, nv)
    ELSE LET before == BuiltByAddEdge(ids, costs, nv, k - 1)
         IN  before \cup {weighted_add_edge(g, v1, v2, cost).graph :
                             g \in before, v1 \in ids, v2 \in ids, cost \in costs}

InitW ==
    /\ graph \in BuiltByAddEdge(WVertexIds, WCosts, WVertices, WEdges)
    /\ call = Call(None, <<>>)
    /\ raised = NoError
    /\ gen = NoGenerator
    /\ result = NoValue
    /\ frame = NoFrame
    /\ file = NoFile
    /\ objects = <<>>
    /\ ui = NoUi

\* one call on the graph built: a call leaves the graph as it is, so a
\* second call would start from what the first one started from
FirstCall == call = Call(None, <<>>)

TarjanOfWeighted == FirstCall /\ StronglyConnectedTarjan

LowestCostPathMatrix(start, end) ==
    FirstCall /\
    Apply("lowest_cost_path_matrix", <<start, end>>, "walk and matrices",
          lowest_cost_path_matrix(graph, start, end))

NextW ==
    \/ TarjanOfWeighted
    \/ \E s, e \in WVertexIds : LowestCostPathMatrix(s, e)

SpecW == InitW /\ [][NextW]_vars

(***************************************************************************)
(* The walk-counting algorithms as calls on a graph the caller has built   *)
(* with add_vertex and add_edge(v1, v2, cost), the cost of an edge being   *)
(* any integer of 0 .. CountMaxCost.  The vertices are added in            *)
(* increasing order of identifier, and the edges in increasing order of    *)
(* (source, target): the lists of both adjacency maps are increasing.      *)
(***************************************************************************)
CountVertexIds == 0 .. (CountVertices - 1)

CountCosts == 0 .. CountMaxCost

EdgeBefore(a, b) == a[1] < b[1] \/ (a[1] = b[1] /\ a[2] < b[2])

RECURSIVE BuiltByAddEdgeInOrder(_, _, _, _)
BuiltByAddEdgeInOrder(ids, costs, nv, k) ==
    IF k = 0 THEN BuiltByAddVertex(ids, nv)
    ELSE LET before == BuiltByAddEdgeInOrder(ids, costs, nv, k - 1)
         IN  before \cup
             {IF \A y \in DOMAIN g._costs : EdgeBefore(y, e)
              THEN weighted_add_edge(g, e[1], e[2], cost).graph
              ELSE g :
                  g \in before, e \in ids \X ids, cost \in costs}

InitCount ==
    /\ graph \in BuiltByAddEdgeInOrder(CountVertexIds, CountCosts, CountVertices, CountEdges)
    /\ call = Call(None, <<>>)
    /\ raised = NoError
    /\ gen = NoGenerator
    /\ result = NoValue
    /\ frame = NoFrame
    /\ file = NoFile
    /\ objects = <<>>
    /\ ui = NoUi

\* one call on the graph built, as above
NumberOfDistinctMinimumCostWalks(start, end) ==
    FirstCall /\
    Apply("number_of_distinct_minimum_cost_walks", <<start, end>>, "count",
          number_of_distinct_minimum_cost_walks(graph, start, end))

NumberOfDistinctWalks(start, end) ==
    FirstCall /\
    Apply("number_of_distinct_walks", <<start, end>>, "count",
          number_of_distinct_walks(graph, start, end))

NextCount ==
    \/ \E s, e \in CountVertexIds : NumberOfDistinctMinimumCostWalks(s, e)
    \/ \E s, e \in CountVertexIds : NumberOfDistinctWalks(s, e)

SpecCount == InitCount /\ [][NextCount]_vars

----------------------------------------------------------------------------
\* generate_rand_weighted_directed_graph(number_of_vertices,
\* number_of_edges, graph), one statement at a time.  call.args holds the
\* two numbers; frame holds the local variables and the statement reached:
\* "check" (line 23), "vertices" (the for loop), "edges" (the while loop),
\* "done" (returned), "raised" (left by an exception).
GenNumbersOfVertices == 0 .. GenMaxN

GenNumbersOfEdges == 0 .. (GenMaxN * GenMaxN + 1)

\* random.randint(1, 100)
randint_low == 1
randint_high == 100

\* the costs drawn in the model: the two ends of the range; the cost takes
\* no part in what the loop does next
GenCosts == {randint_low, randint_high}

\* the graph handed to the call: empty, or holding vertex 0 already
GenGraphInputs == BuiltByAddEdge({0}, {randint_low}, 1, 1)

InitGen ==
    /\ graph \in GenGraphInputs
    /\ \E n \in GenNumbersOfVertices, m \in GenNumbersOfEdges :
           call = Call("generate_rand_weighted_directed_graph", <<n, m>>)
    /\ raised = NoError
    /\ gen = NoGenerator
    /\ result = NoValue
    /\ frame = Frame("check", <<>>, <<>>, 0)
    /\ file = NoFile
    /\ objects = <<>>
    /\ ui = NoUi

\* "number_of_edges > number_of_vertices ** 2", tested with >=
too_many_edges_or_as_many(n, m) == m >= n * n

\* "number_of_edges > number_of_vertices ** 2"
too_many_edges(n, m) == m > n * n

\* "if number_of_edges > number_of_vertices ** 2: raise ValueError(...)"
CheckNumberOfEdges ==
    /\ frame.pc = "check"
    /\ IF too_many_edges(call.args[1], call.args[2])
       THEN raised' = "Too many edges!" /\ frame' = [frame EXCEPT !.pc = "raised"]
       ELSE raised' = NoError /\ frame' = [frame EXCEPT !.pc = "vertices"]
    /\ UNCHANGED <<graph, call, gen, result, file, objects, ui>>

\* one turn of "for vertex in range(number_of_vertices)"; a GraphError of
\* add_vertex leaves the function
AddNextVertex ==
    /\ frame.pc = "vertices"
    /\ Len(frame.vertices) < call.args[1]
    /\ LET added == weighted_add_vertex(graph, Len(frame.vertices))
       IN  /\ graph' = added.graph
           /\ raised' = added.raised
           /\ frame' = IF added.raised # NoError THEN [frame EXCEPT !.pc = "raised"]
                       ELSE [frame EXCEPT !.vertices = Append(@, Len(frame.vertices))]
    /\ UNCHANGED <<call, gen, result, file, objects, ui>>

\* the for loop is over: "added_edges = []; current_number_of_edges = 0"
VerticesAdded ==
    /\ frame.pc = "vertices"
    /\ Len(frame.vertices) >= call.args[1]
    /\ frame' = [frame EXCEPT !.pc = "edges", !.added_edges = <<>>,
                              !.current_number_of_edges = 0]
    /\ UNCHANGED <<graph, call, raised, gen, result, file, objects, ui>>

\* the counter goes up also for a pair that is in added_edges
add_random_edge_counts_every_pair(g, f, start_vertex, end_vertex, cost) ==
    IF ListIn(f.added_edges, <<start_vertex, end_vertex>>)
    THEN [graph |-> g, raised |-> NoError,
          frame |-> [f EXCEPT !.current_number_of_edges = @ + 1]]
    ELSE LET added == weighted_add_edge(g, start_vertex, end_vertex, cost)
         IN  [graph |-> added.graph, raised |-> added.raised,
              frame |-> IF added.raised # NoError THEN [f EXCEPT !.pc = "raised"]
                        ELSE [f EXCEPT !.added_edges = Append(@, <<start_vertex, end_vertex>>),
                                       !.current_number_of_edges = @ + 1]]

\* one turn of the while loop with the pair and the cost drawn: a pair in
\* added_edges changes nothing; a GraphError of add_edge leaves the
\* function
add_random_edge(g, f, start_vertex, end_vertex, cost) ==
    IF ListIn(f.added_edges, <<start_vertex, end_vertex>>)
    THEN [graph |-> g, raised |-> NoError, frame |-> f]
    ELSE LET added == weighted_add_edge(g, start_vertex, end_vertex, cost)
         IN  [graph |-> added.graph, raised |-> added.raised,
              frame |-> IF added.raised # NoError THEN [f EXCEPT !.pc = "raised"]
                        ELSE [f EXCEPT !.added_edges = Append(@, <<start_vertex, end_vertex>>),
                                       !.current_number_of_edges = @ + 1]]

\* "while current_number_of_edges < number_of_edges", with
\* random.choice(vertices) twice and random.randint(1, 100)
AddRandomEdge ==
    /\ frame.pc = "edges"
    /\ frame.current_number_of_edges < call.args[2]
    /\ frame.current_number_of_edges < GenMaxEdges
    /\ \E start_vertex \in ListElems(frame.vertices),
          end_vertex \in ListElems(frame.vertices),
          cost \in GenCosts :
           LET turn == add_random_edge(graph, frame, start_vertex, end_vertex, cost)
           IN  /\ graph' = turn.graph
               /\ raised' = turn.raised
               /\ frame' = turn.frame
    /\ UNCHANGED <<call, gen, result, file, objects, ui>>

\* the while loop is over: the function returns
GenReturn ==
    /\ frame.pc = "edges"
    /\ frame.current_number_of_edges >= call.args[2]
    /\ frame' = [frame EXCEPT !.pc = "done"]
    /\ UNCHANGED <<graph, call, raised, gen, result, file, objects, ui>>

NextGen ==
    \/ CheckNumberOfEdges
    \/ AddNextVertex
    \/ VerticesAdded
    \/ AddRandomEdge
    \/ GenReturn

SpecGen == InitGen /\ [][NextGen]_vars

\* the random choices are fair: a turn of the while loop that draws a pair
\* not yet in added_edges comes sooner or later, and the function is not
\* held up at any other statement
FairSpecGen == SpecGen /\ WF_vars(NextGen)

(***************************************************************************)
(* The whole suite as calls on a graph the caller has built with           *)
(* add_vertex and add_edge(v1, v2, cost), the cost of an edge being any    *)
(* integer of -WMaxCost .. WMaxCost: one call of an algorithm function,    *)
(* and after a call of lowest_cost_path_matrix that returned, a call of    *)
(* get_path_from_matrix with the last matrix it returned (as the loop of   *)
(* __lowest_cost_path_matrix_multiplication in the UI does).               *)
(***************************************************************************)
GetPathFromMatrix(start, end) ==
    /\ call.op = "lowest_cost_path_matrix"
    /\ raised = NoError
    /\ Apply("get_path_from_matrix", <<start, end>>, "walk",
             get_path_from_matrix(graph, result.value.matrices[Len(result.value.matrices)],
                                  start, end))

NextSuite ==
    \/ FirstCall /\ \E v \in WVertexIds : AccessibleVertices(v)
    \/ FirstCall /\ \E s, e \in WVertexIds : ShortestPath(s, e)
    \/ TarjanOfWeighted
    \/ \E s, e \in WVertexIds : LowestCostPathMatrix(s, e)
    \/ \E s, e \in WVertexIds : GetPathFromMatrix(s, e)
    \/ \E s, e \in WVertexIds : NumberOfDistinctMinimumCostWalks(s, e)
    \/ \E s, e \in WVertexIds : NumberOfDistinctWalks(s, e)

SpecSuite == InitW /\ [][NextSuite]_vars

(***************************************************************************)
(* write_to_file and read_from_file of DirectedGraph.  A file is the       *)
(* sequence of its characters.  f"{vertex}" is str of the vertex's value,  *)
(* the decimal digits with a leading "-" for a negative integer, and       *)
(* int(...) reads such a string back.                                      *)
(***************************************************************************)
DigitChars == <<"0", "1", "2", "3", "4", "5", "6", "7", "8", "9">>

\* str(n) for an integer n >= 0
RECURSIVE str_digits(_)
str_digits(n) ==
    IF n < 10 THEN <<DigitChars[n + 1]>>
    ELSE Append(str_digits(n \div 10), DigitChars[(n % 10) + 1])

\* Vertex.__str__: str(self.__value)
vertex_str(vertex) ==
    IF vertex < 0 THEN <<"-">> \o str_digits(0 - vertex) ELSE str_digits(vertex)

\* int(token) for the digits token[i..], n being the value of the digits read
RECURSIVE int_digits(_, _, _)
int_digits(token, i, n) ==
    IF i > Len(token) THEN n
    ELSE int_digits(token, i + 1,
                    10 * n + (CHOOSE d \in 0 .. 9 : DigitChars[d + 1] = token[i]))

\* int(token) for a token str wrote
int_of(token) ==
    IF token[1] = "-" THEN 0 - int_digits(token, 2, 0) ELSE int_digits(token, 1, 0)

\* "for predecessor in predecessors": one line "<predecessor> <vertex>" per
\* inbound edge, followed by a newline unless it is the last predecessor of
\* the last key
RECURSIVE write_predecessors(_, _, _, _, _)
write_predecessors(g, vertex, predecessors, i, text) ==
    IF i > Len(predecessors) THEN text
    ELSE LET line == text \o vertex_str(predecessors[i]) \o <<" ">> \o vertex_str(vertex)
         IN  write_predecessors(g, vertex, predecessors, i + 1,
                 IF \/ predecessors[i] # predecessors[Len(predecessors)]
                    \/ vertex # g._predecessors[Len(g._predecessors)].key
                 THEN Append(line, "\n")
                 ELSE line)

\* "for vertex, predecessors in self._predecessors.items()": a vertex with
\* no inbound and no outbound edge is written as "<vertex> -1"
RECURSIVE write_vertices(_, _, _)
write_vertices(g, i, text) ==
    IF i > Len(g._predecessors) THEN text
    ELSE LET vertex == g._predecessors[i].key
             predecessors == g._predecessors[i].value
         IN  IF predecessors = <<>> /\ DictGet(g._successors, vertex) = <<>>
             THEN LET line == text \o vertex_str(vertex) \o <<" ", "-", "1">>
                  IN  write_vertices(g, i + 1,
                          IF vertex # g._predecessors[Len(g._predecessors)].key
                          THEN Append(line, "\n")
                          ELSE line)
             ELSE write_vertices(g, i + 1, write_predecessors(g, vertex, predecessors, 1, text))

\* the characters write_to_file writes
write_to_file(g) == write_vertices(g, 1, <<>>)

\* "for line in file": the lines of a text, each with its newline
RECURSIVE file_lines(_, _, _, _)
file_lines(text, i, line, lines) ==
    IF i > Len(text) THEN IF line = <<>> THEN lines ELSE Append(lines, line)
    ELSE IF text[i] = "\n" THEN file_lines(text, i + 1, <<>>, Append(lines, Append(line, "\n")))
    ELSE file_lines(text, i + 1, Append(line, text[i]), lines)

\* line.strip().split(): the maximal runs of characters other than
\* whitespace
RECURSIVE split(_, _, _, _)
split(line, i, token, tokens) ==
    IF i > Len(line) THEN IF token = <<>> THEN tokens ELSE Append(tokens, token)
    ELSE IF line[i] \in {" ", "\n"}
    THEN split(line, i + 1, <<>>, IF token = <<>> THEN tokens ELSE Append(tokens, token))
    ELSE split(line, i + 1, Append(token, line[i]), tokens)

\* the body of read_from_file for the lines i, i + 1, ...: an exception of
\* add_vertex or add_edge ends the call, with the graph as read so far
RECURSIVE read_lines(_, _, _)
read_lines(g, lines, i) ==
    IF i > Len(lines) THEN Outcome(g, NoError)
    ELSE LET line == split(lines[i], 1, <<>>, <<>>)
         IN  IF Len(line) < 2 THEN Outcome(g, "IndexError")
             ELSE IF line[2] = <<"-", "1">>
             THEN LET added == add_vertex(g, int_of(line[1]))
                  IN  IF added.raised # NoError THEN added
                      ELSE read_lines(added.graph, lines, i + 1)
             ELSE LET vertex_1 == int_of(line[1])
                      vertex_2 == int_of(line[2])
                      with_1 == IF DictHas(g._predecessors, vertex_1) THEN g
                                ELSE add_vertex(g, vertex_1).graph
                      with_2 == IF DictHas(with_1._predecessors, vertex_2) THEN with_1
                                ELSE add_vertex(with_1, vertex_2).graph
                      added == add_edge(with_2, vertex_1, vertex_2)
                  IN  IF added.raised # NoError THEN added
                      ELSE read_lines(added.graph, lines, i + 1)

\* read_from_file on the graph g, the file holding the characters text
read_from_file(g, text) == read_lines(g, file_lines(text, 1, <<>>, <<>>), 1)

(***************************************************************************)
(* A DirectedGraph the caller has built with add_vertex and add_edge in    *)
(* any order, the identifiers being -1, 0, 1 and FileMaxId, is written     *)
(* with write_to_file; the file written is read with read_from_file into   *)
(* a new DirectedGraph(), the first of objects.                            *)
(***************************************************************************)
FileVertexIds == {0 - 1, 0, 1, FileMaxId}

RECURSIVE BuiltInAnyOrder(_, _)
BuiltInAnyOrder(ids, k) ==
    IF k = 0 THEN {EmptyGraph}
    ELSE LET before == BuiltInAnyOrder(ids, k - 1)
         IN  before
             \cup {IF number_of_vertices(g) < FileVertices
                   THEN add_vertex(g, v).graph ELSE g : g \in before, v \in ids}
             \cup {IF number_of_edges(g) < FileEdges
                   THEN add_edge(g, v1, v2).graph ELSE g :
                       g \in before, v1 \in ids, v2 \in ids}

InitFile ==
    /\ graph \in BuiltInAnyOrder(FileVertexIds, FileVertices + FileEdges)
    /\ call = Call(None, <<>>)
    /\ raised = NoError
    /\ gen = NoGenerator
    /\ result = NoValue
    /\ frame = NoFrame
    /\ file = NoFile
    /\ objects = <<>>
    /\ ui = NoUi

WriteToFile ==
    /\ ~file.written
    /\ file' = File(TRUE, write_to_file(graph))
    /\ call' = Call("write_to_file", <<>>)
    /\ raised' = NoError
    /\ result' = NoValue
    /\ UNCHANGED <<graph, gen, frame, objects, ui>>

ReadFromFile ==
    /\ file.written
    /\ objects = <<>>
    /\ objects' = <<read_from_file(EmptyGraph, file.text).graph>>
    /\ raised' = read_from_file(EmptyGraph, file.text).raised
    /\ call' = Call("read_from_file", <<>>)
    /\ result' = NoValue
    /\ UNCHANGED <<graph, gen, frame, file, ui>>

NextFile ==
    \/ WriteToFile
    \/ ReadFromFile

SpecFile == InitFile /\ [][NextFile]_vars

(***************************************************************************)
(* DirectedWeightedUi: the commands that change the graph and the pair     *)
(* "create a copy" / "restore".  The fields __graph and __original_graph   *)
(* are references to graph objects: ui.graph and ui.original_graph are     *)
(* positions in objects.  A command works on the object ui.graph refers    *)
(* to; the GraphError of a failed command is caught and printed by the     *)
(* handler, a UiError by run_ui.                                           *)
(***************************************************************************)
\* remove_vertex: the one of DirectedGraph, and the costs of the edges at
\* the vertex are deleted
weighted_remove_vertex(g, vertex) ==
    LET base == remove_vertex(Adjacency(g), vertex)
    IN  IF base.raised # NoError THEN Outcome(g, base.raised)
        ELSE Outcome([WithAdjacency(g, base.graph) EXCEPT
                         !._costs = [e \in {x \in DOMAIN g._costs :
                                               x[1] # vertex /\ x[2] # vertex} |-> g._costs[e]]],
                     NoError)

\* remove_edge: the one of DirectedGraph, and the cost entry is deleted
weighted_remove_edge(g, vertex_1, vertex_2) ==
    LET base == remove_edge(Adjacency(g), vertex_1, vertex_2)
    IN  IF base.raised # NoError THEN Outcome(g, base.raised)
        ELSE Outcome([WithAdjacency(g, base.graph) EXCEPT
                         !._costs = [e \in DOMAIN g._costs \ {<<vertex_1, vertex_2>>} |->
                                        g._costs[e]]],
                     NoError)

\* set_edge_cost: InvalidVertex, then EdgeNotFound, then the cost is
\* overwritten
set_edge_cost(g, vertex_1, vertex_2, cost) ==
    IF get_edge_cost_raises(g, vertex_1, vertex_2) # NoError
    THEN Outcome(g, get_edge_cost_raises(g, vertex_1, vertex_2))
    ELSE Outcome([g EXCEPT !._costs = CostSet(g._costs, <<vertex_1, vertex_2>>, cost)], NoError)

\* copy.deepcopy of the object at ref as if it shared everything with it
deepcopy_shares(objs, ref) == [objects |-> objs, ref |-> ref]

\* copy.deepcopy(self.__graph): a new object, equal to the one at ref, that
\* shares no dict and no list with it
deepcopy(objs, ref) == [objects |-> Append(objs, objs[ref]), ref |-> Len(objs) + 1]

\* main: graph = WeightedDirectedGraph(); ui = DirectedWeightedUi(graph)
InitUi ==
    /\ objects = <<EmptyWeightedGraph>>
    /\ ui = Ui(1, NoObject, FALSE)
    /\ graph = EmptyGraph
    /\ call = Call(None, <<>>)
    /\ raised = NoError
    /\ gen = NoGenerator
    /\ result = NoValue
    /\ frame = NoFrame
    /\ file = NoFile

\* commands 9 to 13: a mutator of the graph self.__graph refers to
Command(op, args, outcome) ==
    /\ objects' = [objects EXCEPT ![ui.graph] = outcome.graph]
    /\ raised' = outcome.raised
    /\ call' = Call(op, args)
    /\ result' = NoValue
    /\ UNCHANGED <<graph, gen, frame, file, ui>>

\* command c
CreateACopyOfTheGraph ==
    /\ call' = Call("create_a_copy_of_the_graph", <<>>)
    /\ result' = NoValue
    /\ UNCHANGED <<graph, gen, frame, file>>
    /\ IF ui.is_copy
       THEN raised' = "Graph already has a copy!" /\ UNCHANGED <<objects, ui>>
       ELSE IF number_of_vertices(objects[ui.graph]) = 0
       THEN raised' = "Graph is empty!" /\ UNCHANGED <<objects, ui>>
       ELSE /\ raised' = NoError
            /\ objects' = deepcopy(objects, ui.graph).objects
            /\ ui' = Ui(deepcopy(objects, ui.graph).ref, ui.graph, TRUE)

\* command u as if it left __is_copy and __original_graph as they are
RestoreTheOriginalGraphKeepsTheFlag ==
    /\ call' = Call("restore_the_original_graph", <<>>)
    /\ result' = NoValue
    /\ UNCHANGED <<graph, gen, frame, file>>
    /\ IF ~ui.is_copy
       THEN raised' = "Graph has no copy!" /\ UNCHANGED <<objects, ui>>
       ELSE /\ raised' = NoError
            /\ objects' = objects
            /\ ui' = Ui(ui.original_graph, ui.original_graph, TRUE)

\* command u.  The copy is referred to by nothing after it and is
\* reclaimed: the original is the one object again.
RestoreTheOriginalGraph ==
    /\ call' = Call("restore_the_original_graph", <<>>)
    /\ result' = NoValue
    /\ UNCHANGED <<graph, gen, frame, file>>
    /\ IF ~ui.is_copy
       THEN raised' = "Graph has no copy!" /\ UNCHANGED <<objects, ui>>
       ELSE /\ raised' = NoError
            /\ objects' = <<objects[ui.original_graph]>>
            /\ ui' = Ui(1, NoObject, FALSE)

NextUi ==
    \/ \E v \in 0 .. (UiVertices - 1) :
           Command("add_vertex", <<v>>, weighted_add_vertex(objects[ui.graph], v))
    \/ \E v \in 0 .. (UiVertices - 1) :
           Command("remove_vertex", <<v>>, weighted_remove_vertex(objects[ui.graph], v))
    \/ \E v1, v2 \in 0 .. (UiVertices - 1), cost \in 0 .. UiMaxCost :
           /\ number_of_edges(objects[ui.graph]) < UiEdges
           /\ Command("add_edge", <<v1, v2, cost>>,
                      weighted_add_edge(objects[ui.graph], v1, v2, cost))
    \/ \E v1, v2 \in 0 .. (UiVertices - 1) :
           Command("remove_edge", <<v1, v2>>, weighted_remove_edge(objects[ui.graph], v1, v2))
    \/ \E v1, v2 \in 0 .. (UiVertices - 1), cost \in 0 .. UiMaxCost :
           Command("set_edge_cost", <<v1, v2, cost>>,
                   set_edge_cost(objects[ui.graph], v1, v2, cost))
    \/ CreateACopyOfTheGraph
    \/ RestoreTheOriginalGraph

SpecUi == InitUi /\ [][NextUi]_vars

(***************************************************************************)
(* Vocabulary of the properties.                                           *)
(***************************************************************************)
\* the list stored for a vertex, empty when the vertex is not a key
PredecessorsOf(g, v) == IF DictHas(g._predecessors, v) THEN DictGet(g._predecessors, v) ELSE <<>>
SuccessorsOf(g, v) == IF DictHas(g._successors, v) THEN DictGet(g._successors, v) ELSE <<>>

\* the edges recorded by the successor map, and those recorded by the predecessor map
SuccessorEdges(g) ==
    UNION {{<<g._successors[i].key, x>> : x \in ListElems(g._successors[i].value)} :
              i \in 1 .. Len(g._successors)}
PredecessorEdges(g) ==
    UNION {{<<x, g._predecessors[i].key>> : x \in ListElems(g._predecessors[i].value)} :
              i \in 1 .. Len(g._predecessors)}

\* a list without repetition
NoRepeat(l) == \A i, j \in 1 .. Len(l) : l[i] = l[j] => i = j

Mutators == {"add_vertex", "remove_vertex", "add_edge", "remove_edge"}

(***************************************************************************)
(* DirectedGraph: invariants of the two adjacency maps.                    *)
(***************************************************************************)
\* C1: after any sequence of add_vertex, remove_vertex, add_edge and
\* remove_edge calls, successful or failing, v2 is in the successor list of
\* v1 if and only if v1 is in the predecessor list of v2, for all vertices
\* v1, v2 of the graph.
C1_MutuallyConsistent ==
    \A v1, v2 \in DictKeys(graph._predecessors) \cup DictKeys(graph._successors) :
        ListIn(SuccessorsOf(graph, v1), v2) <=> ListIn(PredecessorsOf(graph, v2), v1)

\* a self-loop and another edge are present after a call that failed
C1_Witness ==
    /\ call.op \in Mutators
    /\ raised # NoError
    /\ \E v \in VertexIds : is_vertex(graph, v) /\ is_edge(graph, v, v)
    /\ \E v1, v2 \in VertexIds :
          v1 # v2 /\ is_vertex(graph, v1) /\ is_vertex(graph, v2) /\ is_edge(graph, v1, v2)

\* C2: every vertex in a predecessor or successor list is a key of both
\* maps, the two maps have the same keys, and no list holds a vertex twice.
C2_NoDanglingNoDuplicate ==
    /\ DictKeys(graph._predecessors) = DictKeys(graph._successors)
    /\ \A i \in 1 .. Len(graph._predecessors) :
          /\ ListElems(graph._predecessors[i].value) \subseteq DictKeys(graph._predecessors)
          /\ ListElems(graph._predecessors[i].value) \subseteq DictKeys(graph._successors)
          /\ NoRepeat(graph._predecessors[i].value)
    /\ \A i \in 1 .. Len(graph._successors) :
          /\ ListElems(graph._successors[i].value) \subseteq DictKeys(graph._predecessors)
          /\ ListElems(graph._successors[i].value) \subseteq DictKeys(graph._successors)
          /\ NoRepeat(graph._successors[i].value)

\* a vertex with edges was removed while other vertices and an edge remain,
\* or an add_edge of an edge already present was attempted
C2_Witness ==
    \/ /\ call.op = "add_edge"
       /\ raised = "Edge already exists!"
       /\ number_of_edges(graph) = MaxEdges
    \/ /\ call.op = "remove_vertex"
       /\ raised = NoError
       /\ number_of_vertices(graph) >= 2
       /\ number_of_edges(graph) >= 1

(***************************************************************************)
(* DirectedGraph: what one mutator call does.  These are properties of a   *)
(* step: graph is the object before the call, graph' after it, call' the   *)
(* call that was made and raised' the exception it ended with.             *)
(***************************************************************************)
\* the condition under which the code is to refuse a mutator call
MustFail(g, c) ==
    CASE c.op = "add_vertex"    -> is_vertex(g, c.args[1])
      [] c.op = "remove_vertex" -> ~is_vertex(g, c.args[1])
      [] c.op = "add_edge"      -> \/ ~is_vertex(g, c.args[1])
                                   \/ ~is_vertex(g, c.args[2])
                                   \/ is_edge(g, c.args[1], c.args[2])
      [] c.op = "remove_edge"   -> \/ ~is_vertex(g, c.args[1])
                                   \/ ~is_vertex(g, c.args[2])
                                   \/ ~is_edge(g, c.args[1], c.args[2])
      [] OTHER -> FALSE

\* C3: a mutator call that fails (add_vertex of a present vertex,
\* remove_vertex of an absent one, add_edge with an absent endpoint or of a
\* present edge, remove_edge with an absent endpoint or of a missing edge)
\* raises its error and leaves both adjacency maps as they were.
C3_FailedCallChangesNothing ==
    [][(call'.op \in Mutators /\ MustFail(graph, call'))
          => (raised' # NoError /\ graph' = graph)]_vars

\* add_vertex or remove_edge has failed on a graph that holds edges
C3_Witness ==
    /\ call.op \in {"add_vertex", "remove_edge"}
    /\ raised \in {"Vertex already exists!", "Edge does not exist!"}
    /\ is_vertex(graph, call.args[1])
    /\ number_of_edges(graph) >= 2

\* C4: add_edge(v1, v2) fails with "Invalid vertex!" when an endpoint is
\* absent, with "Edge already exists!" when both are present and the edge
\* exists, and otherwise adds the one edge (v1, v2): the vertices and every
\* other edge are unchanged and is_edge(v1, v2) holds afterwards.
C4_AddEdge ==
    [][call'.op = "add_edge" =>
         LET v1 == call'.args[1]
             v2 == call'.args[2]
         IN  IF ~is_vertex(graph, v1) \/ ~is_vertex(graph, v2)
             THEN raised' = "Invalid vertex!"
             ELSE IF is_edge(graph, v1, v2)
             THEN raised' = "Edge already exists!"
             ELSE /\ raised' = NoError
                  /\ vertices(graph') = vertices(graph)
                  /\ DictKeys(graph'._successors) = DictKeys(graph._successors)
                  /\ SuccessorEdges(graph') = SuccessorEdges(graph) \cup {<<v1, v2>>}
                  /\ PredecessorEdges(graph') = PredecessorEdges(graph) \cup {<<v1, v2>>}
                  /\ is_edge_raises(graph', v1, v2) = NoError
                  /\ is_edge(graph', v1, v2)]_vars

\* an edge was added to a graph that already held another edge
C4_Witness ==
    /\ call.op = "add_edge"
    /\ raised = NoError
    /\ is_edge(graph, call.args[1], call.args[2])
    /\ number_of_edges(graph) >= 2

\* C5: a successful remove_vertex(v) removes v and every edge with v as
\* source or target, self-loop included, and nothing else: v is no vertex
\* afterwards, no list holds v, the other vertices are kept and every edge
\* between two other vertices is still present.
C5_RemoveVertex ==
    [][(call'.op = "remove_vertex" /\ is_vertex(graph, call'.args[1])) =>
         LET v == call'.args[1]
         IN  /\ raised' = NoError
             /\ ~is_vertex(graph', v)
             /\ DictKeys(graph'._predecessors) = DictKeys(graph._predecessors) \ {v}
             /\ DictKeys(graph'._successors) = DictKeys(graph._successors) \ {v}
             /\ SuccessorEdges(graph') =
                   {e \in SuccessorEdges(graph) : e[1] # v /\ e[2] # v}
             /\ PredecessorEdges(graph') =
                   {e \in PredecessorEdges(graph) : e[1] # v /\ e[2] # v}]_vars

\* a vertex was removed and an edge between two other vertices is left
C5_Witness ==
    /\ call.op = "remove_vertex"
    /\ raised = NoError
    /\ number_of_edges(graph) >= 1
    /\ number_of_vertices(graph) = NumVertexIds - 1

\* C6: get_inbound_vertices(v) and get_outbound_vertices(v) with a vertex
\* absent from the graph fail with "Invalid vertex!" at the call itself,
\* before the caller receives a sequence.
C6_FailsUpFront ==
    (/\ call.op \in {"get_inbound_vertices", "get_outbound_vertices"}
     /\ ~is_vertex(graph, call.args[1]))
        => raised = "Invalid vertex!"

(***************************************************************************)
(* Algorithm suite: reference notions the results are compared with.       *)
(***************************************************************************)
\* the vertices one edge away from a vertex of S
OneStep(g, S) == {e[2] : e \in {d \in SuccessorEdges(g) : d[1] \in S}}

\* the vertices reachable from a vertex of S by a walk of at most k edges
RECURSIVE WithinHops(_, _, _)
WithinHops(g, S, k) == IF k = 0 THEN S ELSE LET W == WithinHops(g, S, k - 1) IN W \cup OneStep(g, W)

\* the vertices reachable from s by a walk of zero or more edges
ReachableFrom(g, s) == WithinHops(g, {s}, number_of_vertices(g))

\* the least number of edges of a walk from s to e, for e reachable from s
HopDistance(g, s, e) ==
    CHOOSE k \in 0 .. number_of_vertices(g) :
        /\ e \in WithinHops(g, {s}, k)
        /\ \A j \in 0 .. (k - 1) : e \notin WithinHops(g, {s}, j)

\* a walk of the graph: every consecutive pair is an edge
IsWalk(g, walk) ==
    \A i \in 1 .. (Len(walk) - 1) : <<walk[i], walk[i + 1]>> \in SuccessorEdges(g)

\* the vertex identifiers are 0 .. V-1
ContiguousIds(g) == DictKeys(g._predecessors) = 0 .. (number_of_vertices(g) - 1)

\* the vertex set of the i-th returned component
ComponentVertices(components, i) == DictKeys(components[i]._predecessors)

(***************************************************************************)
(* Algorithm suite: properties of the results.                             *)
(***************************************************************************)
\* C7: for a vertex s of the graph, accessible_vertices returns exactly the
\* vertices reachable from s by a walk of zero or more edges: s is in the
\* result, the result is closed under taking a successor, and it holds no
\* vertex that is not reachable from s.
C7_AccessibleVertices ==
    (call.op = "accessible_vertices" /\ is_vertex(graph, call.args[1])) =>
        /\ raised = NoError
        /\ result.kind = "set"
        /\ call.args[1] \in result.value
        /\ OneStep(graph, result.value) \subseteq result.value
        /\ result.value = ReachableFrom(graph, call.args[1])

\* the result holds a vertex that is two edges away from the start
C7_Witness ==
    /\ call.op = "accessible_vertices"
    /\ raised = NoError
    /\ result.kind = "set"
    /\ result.value # {call.args[1]} \cup OneStep(graph, {call.args[1]})
    /\ number_of_edges(graph) = AlgEdges

\* C8: for vertices s, e of the graph, shortest_path returns the empty
\* sequence if and only if e is unreachable from s; otherwise a walk from s
\* to e over edges of the graph whose number of edges is the breadth-first
\* hop distance from s to e ([s] when s = e).
C8_ShortestPath ==
    (/\ call.op = "shortest_path"
     /\ is_vertex(graph, call.args[1])
     /\ is_vertex(graph, call.args[2])) =>
        LET s == call.args[1]
            e == call.args[2]
        IN  /\ raised = NoError
            /\ result.kind = "walk"
            /\ (result.value = <<>>) <=> (e \notin ReachableFrom(graph, s))
            /\ result.value # <<>> =>
                  /\ result.value[1] = s
                  /\ result.value[Len(result.value)] = e
                  /\ IsWalk(graph, result.value)
                  /\ Len(result.value) - 1 = HopDistance(graph, s, e)
            /\ s = e => result.value = <<s>>

\* a walk of two edges was returned on a graph with the most edges explored
C8_Witness ==
    /\ call.op = "shortest_path"
    /\ raised = NoError
    /\ result.kind = "walk"
    /\ Len(result.value) = 3
    /\ number_of_edges(graph) = AlgEdges

\* C9: for a graph whose vertex identifiers are 0..V-1, the components
\* returned by strongly_connected_tarjan partition the vertex set: every
\* vertex is a vertex of exactly one component, and no component holds a
\* vertex that is not in the graph.
C9_TarjanPartitions ==
    (call.op = "strongly_connected_tarjan" /\ ContiguousIds(graph)) =>
        /\ raised = NoError
        /\ result.kind = "components"
        /\ \A v \in DictKeys(graph._predecessors) :
              Cardinality({i \in 1 .. Len(result.value) :
                              v \in ComponentVertices(result.value, i)}) = 1
        /\ \A i \in 1 .. Len(result.value) :
              ComponentVertices(result.value, i) \subseteq DictKeys(graph._predecessors)

\* two components were returned, one of them with two vertices or more
C9_Witness ==
    /\ call.op = "strongly_connected_tarjan"
    /\ raised = NoError
    /\ result.kind = "components"
    /\ Len(result.value) >= 2
    /\ \E i \in 1 .. Len(result.value) :
          Cardinality(ComponentVertices(result.value, i)) >= 2

\* C10: for a graph whose vertex identifiers are 0..V-1, each returned
\* component is a strongly connected component: any two vertices of one
\* component reach each other by directed walks, and two vertices that
\* reach each other are never in different components.
C10_TarjanComponentsAreSCCs ==
    (/\ call.op = "strongly_connected_tarjan"
     /\ ContiguousIds(graph)
     /\ raised = NoError
     /\ result.kind = "components") =>
        /\ \A i \in 1 .. Len(result.value) :
              \A u, v \in ComponentVertices(result.value, i) :
                  v \in ReachableFrom(graph, u)
        /\ \A u, v \in DictKeys(graph._predecessors) :
              (u \in ReachableFrom(graph, v) /\ v \in ReachableFrom(graph, u)) =>
                  \A i \in 1 .. Len(result.value) :
                      u \in ComponentVertices(result.value, i)
                          <=> v \in ComponentVertices(result.value, i)


\* C11: every component returned by strongly_connected_tarjan has as its
\* edges exactly the edges of the input graph with both endpoints in the
\* component, self-loops included, each with the cost it has in the input
\* graph
InducedEdges(g, S) == {e \in SuccessorEdges(g) : e[1] \in S /\ e[2] \in S}

C11_ComponentEdgesAndCosts ==
    (call.op = "strongly_connected_tarjan" /\ raised = NoError) =>
        \A i \in 1 .. Len(result.value) :
            LET c == result.value[i]
                induced == InducedEdges(graph, ComponentVertices(result.value, i))
            IN  /\ SuccessorEdges(c) = induced
                /\ PredecessorEdges(c) = induced
                /\ DOMAIN c._costs = induced
                /\ \A e \in induced :
                       get_edge_cost(c, e[1], e[2]) = get_edge_cost(graph, e[1], e[2])

\* a returned component of two vertices with an edge each way of different
\* costs and a self-loop
C11_Witness ==
    /\ call.op = "strongly_connected_tarjan"
    /\ raised = NoError
    /\ \E i \in 1 .. Len(result.value) :
          \E u, v \in ComponentVertices(result.value, i) :
              /\ u # v
              /\ <<u, u>> \in SuccessorEdges(result.value[i])
              /\ <<u, v>> \in SuccessorEdges(result.value[i])
              /\ <<v, u>> \in SuccessorEdges(result.value[i])
              /\ get_edge_cost(result.value[i], u, v) # get_edge_cost(result.value[i], v, u)

\* C12: the list returned by strongly_connected_tarjan is in reverse
\* topological order of the condensation: for every edge (u, v) of the
\* input graph whose endpoints lie in different returned components, the
\* component containing v is before the component containing u in the list
ComponentIndex(components, v) ==
    CHOOSE i \in 1 .. Len(components) : v \in ComponentVertices(components, i)

C12_ReverseTopologicalOrder ==
    (call.op = "strongly_connected_tarjan" /\ raised = NoError) =>
        \A e \in SuccessorEdges(graph) :
            ComponentIndex(result.value, e[1]) # ComponentIndex(result.value, e[2])
                => ComponentIndex(result.value, e[2]) < ComponentIndex(result.value, e[1])

\* C13: strongly_connected_tarjan raises on no graph built with the graph
\* operations, whatever the vertex identifiers, and returns the empty list
\* for the empty graph
C13_TarjanNeverRaises ==
    call.op = "strongly_connected_tarjan" =>
        /\ raised = NoError
        /\ result.kind = "components"
        /\ number_of_vertices(graph) = 0 => result.value = <<>>

\* the walks of the graph with at most k edges, as lists of vertices
RECURSIVE WalksUpTo(_, _)
WalksUpTo(g, k) ==
    IF k = 0 THEN {<<v>> : v \in DictKeys(g._predecessors)}
    ELSE LET shorter == WalksUpTo(g, k - 1)
         IN  shorter \cup
             UNION {{Append(w, e[2]) : e \in {d \in SuccessorEdges(g) : d[1] = w[Len(w)]}} :
                    w \in shorter}

\* the sum of the costs of the edges of a walk
RECURSIVE WalkCost(_, _)
WalkCost(g, w) ==
    IF Len(w) <= 1 THEN 0
    ELSE get_edge_cost(g, w[1], w[2]) + WalkCost(g, Tail(w))

\* a directed cycle of negative total cost: were there a closed walk of
\* negative cost, one of its cycles, of at most V edges, would be negative
HasNegativeCycle(g) ==
    \E w \in WalksUpTo(g, number_of_vertices(g)) :
        Len(w) >= 2 /\ w[1] = w[Len(w)] /\ WalkCost(g, w) < 0

\* a call lowest_cost_path_matrix(G, start, end) with start and end in G,
\* the identifiers of G being 0 .. V-1
MatrixCall ==
    /\ call.op = "lowest_cost_path_matrix"
    /\ ContiguousIds(graph)
    /\ is_vertex(graph, call.args[1])
    /\ is_vertex(graph, call.args[2])

\* C14: on a graph with identifiers 0 .. V-1 that has a directed cycle of
\* negative total cost, reachable from start or not,
\* lowest_cost_path_matrix raises "Negative cycle detected!" and returns
\* nothing
C14_NegativeCycleRaises ==
    (MatrixCall /\ HasNegativeCycle(graph)) =>
        (raised = "Negative cycle detected!" /\ result = NoValue)

\* the negative cycle has two edges or more, no self-loop is negative and
\* start is not on a negative cycle
C14_Witness ==
    /\ MatrixCall
    /\ HasNegativeCycle(graph)
    /\ raised = "Negative cycle detected!"
    /\ \A e \in SuccessorEdges(graph) : e[1] = e[2] => get_edge_cost(graph, e[1], e[2]) >= 0
    /\ \A w \in WalksUpTo(graph, number_of_vertices(graph)) :
           (Len(w) >= 2 /\ w[1] = w[Len(w)] /\ WalkCost(graph, w) < 0)
               => \A i \in 1 .. Len(w) : w[i] # call.args[1]

\* the least cost of a walk of W from i to j with at most k edges, inf
\* when there is none
MinCostOver(g, W, i, j, k) ==
    LET costs == {WalkCost(g, w) :
                     w \in {x \in W : Len(x) <= k + 1 /\ x[1] = i /\ x[Len(x)] = j}}
    IN  IF costs = {} THEN inf ELSE CHOOSE c \in costs : \A d \in costs : c <= d

NonNegativeCosts(g) == \A e \in SuccessorEdges(g) : get_edge_cost(g, e[1], e[2]) >= 0

\* C15: on a graph with identifiers 0 .. V-1 and no negative cost, for
\* start and end in the graph, lowest_cost_path_matrix returns: when end
\* is reachable from start, a walk of the graph from start to end whose
\* cost is the minimum cost from start to end (with no negative cost, the
\* least cost of a walk of at most V-1 edges); when it is not, the empty
\* walk
C15_MinimumCostWalk ==
    (MatrixCall /\ NonNegativeCosts(graph)) =>
        LET start == call.args[1]
            end == call.args[2]
            V == number_of_vertices(graph)
        IN  /\ raised = NoError
            /\ result.kind = "walk and matrices"
            /\ IF end \in ReachableFrom(graph, start)
               THEN LET walk == result.value.walk
                    IN  /\ Len(walk) >= 1
                        /\ walk[1] = start
                        /\ walk[Len(walk)] = end
                        /\ IsWalk(graph, walk)
                        /\ WalkCost(graph, walk)
                               = MinCostOver(graph, WalksUpTo(graph, V - 1), start, end, V - 1)
               ELSE result.value.walk = <<>>

\* C16: a normal return of lowest_cost_path_matrix on a graph of V
\* vertices 0 .. V-1 carries exactly V matrices; the first has the cost of
\* the edge where there is one, inf where there is none and 0 on the
\* diagonal; entry (i, j) of the k-th is the least cost of a walk from i
\* to j with at most k edges, inf when there is none; the last holds the
\* least costs over the walks of any length
C16_Matrices ==
    (MatrixCall /\ raised = NoError) =>
        LET V == number_of_vertices(graph)
            matrices == result.value.matrices
            W == WalksUpTo(graph, 2 * V)
        IN  /\ Len(matrices) = V
            /\ \A i, j \in 0 .. (V - 1) :
                   /\ matrices[1][i][j] =
                          IF i = j THEN 0
                          ELSE IF <<i, j>> \in SuccessorEdges(graph)
                          THEN get_edge_cost(graph, i, j)
                          ELSE inf
                   /\ \A k \in 1 .. V : matrices[k][i][j] = MinCostOver(graph, W, i, j, k)
                   /\ matrices[V][i][j] = MinCostOver(graph, W, i, j, 2 * V)

\* a return with three matrices, a negative cost, a self-loop, and a pair
\* of vertices joined by a walk of two edges and by no edge
C16_Witness ==
    /\ MatrixCall
    /\ raised = NoError
    /\ Len(result.value.matrices) = 3
    /\ \E e \in SuccessorEdges(graph) : get_edge_cost(graph, e[1], e[2]) < 0
    /\ \E e \in SuccessorEdges(graph) : e[1] = e[2]
    /\ \E i, j \in 0 .. 2 :
           /\ result.value.matrices[1][i][j] = inf
           /\ result.value.matrices[2][i][j] < inf

\* the walks of W from i to j
WalksBetween(W, i, j) == {w \in W : w[1] = i /\ w[Len(w)] = j}

\* the walks of W from i to j of the least cost among them
MinCostWalks(g, W, i, j) ==
    {w \in WalksBetween(W, i, j) :
        \A x \in WalksBetween(W, i, j) : WalkCost(g, w) <= WalkCost(g, x)}

\* with no negative cost, a minimum-cost walk that repeats a vertex goes
\* round a zero-cost cycle, and then one of at most 2V - 1 edges does: the
\* minimum-cost walks are finitely many when those of at most 2V edges are
\* all of at most V - 1 edges
FinitelyManyMinCostWalks(g, i, j) ==
    \A w \in MinCostWalks(g, WalksUpTo(g, 2 * number_of_vertices(g)), i, j) :
        Len(w) <= number_of_vertices(g)

\* C17: on a graph with no negative cost in which the minimum-cost walks
\* from start to end are finitely many,
\* number_of_distinct_minimum_cost_walks returns their number, and 0 when
\* end is unreachable from start
C17_CountsMinimumCostWalks ==
    (/\ call.op = "number_of_distinct_minimum_cost_walks"
     /\ is_vertex(graph, call.args[1])
     /\ is_vertex(graph, call.args[2])
     /\ NonNegativeCosts(graph)
     /\ FinitelyManyMinCostWalks(graph, call.args[1], call.args[2])) =>
        /\ raised = NoError
        /\ result.kind = "count"
        /\ result.value =
               Cardinality(MinCostWalks(graph, WalksUpTo(graph, number_of_vertices(graph) - 1),
                                        call.args[1], call.args[2]))

\* no closed walk of one edge or more
IsAcyclic(g) ==
    \A w \in WalksUpTo(g, number_of_vertices(g)) : Len(w) >= 2 => w[1] # w[Len(w)]

\* C18: on a directed acyclic graph, number_of_distinct_walks(G, start,
\* end) returns the number of walks from start to end: 1 when start = end,
\* 0 when end is unreachable, 1 for a single path start -> a -> end, 2 for
\* two vertex-disjoint paths start -> a -> end and start -> b -> end
C18_CountsWalksOfDag ==
    (/\ call.op = "number_of_distinct_walks"
     /\ is_vertex(graph, call.args[1])
     /\ is_vertex(graph, call.args[2])
     /\ IsAcyclic(graph)) =>
        /\ raised = NoError
        /\ result.kind = "count"
        /\ result.value =
               Cardinality(WalksBetween(WalksUpTo(graph, number_of_vertices(graph)),
                                        call.args[1], call.args[2]))
        /\ call.args[1] = call.args[2] => result.value = 1
        /\ call.args[2] \notin ReachableFrom(graph, call.args[1]) => result.value = 0

\* the two vertex-disjoint paths start -> a -> end and start -> b -> end,
\* and nothing else: the count returned is 2
C18_Witness ==
    /\ call.op = "number_of_distinct_walks"
    /\ raised = NoError
    /\ IsAcyclic(graph)
    /\ \E a, b \in DictKeys(graph._predecessors) :
           /\ Cardinality({call.args[1], call.args[2], a, b}) = 4
           /\ SuccessorEdges(graph) = {<<call.args[1], a>>, <<a, call.args[2]>>,
                                       <<call.args[1], b>>, <<b, call.args[2]>>}
    /\ result.value = 2

\* the call is generate_rand_weighted_directed_graph(n, m, G) with G
\* empty and m <= n * n, about to run, m being within the number of edges
\* the loop is followed for
GenStartsOnEmptyGraph ==
    /\ frame.pc = "check"
    /\ graph = EmptyWeightedGraph
    /\ call.args[2] <= call.args[1] * call.args[1]
    /\ call.args[2] <= GenMaxEdges

\* the call has returned, the graph has exactly the vertices 0 .. n-1 and
\* exactly m edges, all different, each with a cost in 1 .. 100
GenHasReturned ==
    /\ frame.pc = "done"
    /\ raised = NoError
    /\ DictKeys(graph._predecessors) = 0 .. (call.args[1] - 1)
    /\ number_of_vertices(graph) = call.args[1]
    /\ number_of_edges(graph) = call.args[2]
    /\ Cardinality(SuccessorEdges(graph)) = call.args[2]
    /\ PredecessorEdges(graph) = SuccessorEdges(graph)
    /\ DOMAIN graph._costs = SuccessorEdges(graph)
    /\ \A e \in SuccessorEdges(graph) :
           get_edge_cost(graph, e[1], e[2]) \in randint_low .. randint_high

\* C19: a call generate_rand_weighted_directed_graph(n, m, G) with G empty
\* and 0 <= m <= n * n returns in the end, the random choices being fair,
\* and leaves in G exactly the vertices 0 .. n-1 and exactly m distinct
\* ordered edges, each with a cost in 1 .. 100
C19_GeneratorTerminates == GenStartsOnEmptyGraph ~> GenHasReturned

\* a return with three vertices and three edges, a self-loop among them
C19_Witness ==
    /\ GenHasReturned
    /\ call.args = <<3, 3>>
    /\ \E e \in SuccessorEdges(graph) : e[1] = e[2]
    /\ \E e \in SuccessorEdges(graph) : e[1] # e[2]

\* C20: a call with m > n * n raises "Too many edges!" at its first
\* statement, before any vertex or edge is added: the graph is as it was;
\* a call with m <= n * n does not raise it (n = 3: m = 10 raises, m = 9
\* does not)
C20_TooManyEdges ==
    [][/\ frame.pc = "check" =>
              IF call.args[2] > call.args[1] * call.args[1]
              THEN raised' = "Too many edges!" /\ graph' = graph /\ frame'.pc = "raised"
              ELSE raised' = NoError /\ frame'.pc = "vertices"
       /\ frame.pc # "check" => raised' # "Too many edges!"]_vars

\* the call with n = 3 and m = 10 on a graph that is not empty has raised
C20_Witness ==
    /\ call.args = <<3, 10>>
    /\ raised = "Too many edges!"
    /\ frame.pc = "raised"
    /\ number_of_edges(graph) = 1

\* the algorithm functions that take a start vertex, or a start and an end
EndpointFunctions ==
    {"accessible_vertices", "shortest_path", "lowest_cost_path_matrix",
     "get_path_from_matrix", "number_of_distinct_minimum_cost_walks",
     "number_of_distinct_walks"}

\* the last call was handed a vertex that is not in the graph
AbsentEndpoint == \E i \in DOMAIN call.args : ~is_vertex(graph, call.args[i])

\* C21: each of accessible_vertices, shortest_path, lowest_cost_path_matrix,
\* get_path_from_matrix, number_of_distinct_minimum_cost_walks and
\* number_of_distinct_walks, called with a start or an end that is not a
\* vertex of the graph, raises "Vertex not in graph!" and returns nothing,
\* whatever else is wrong with the graph (a negative cycle, identifiers
\* that are not 0 .. V-1)
C21_InvalidVertexFirst ==
    (call.op \in EndpointFunctions /\ AbsentEndpoint) =>
        (raised = "Vertex not in graph!" /\ result = NoValue)

\* lowest_cost_path_matrix with an absent end on a graph with a self-loop
\* of negative cost
C21_Witness ==
    /\ call.op = "lowest_cost_path_matrix"
    /\ is_vertex(graph, call.args[1])
    /\ ~is_vertex(graph, call.args[2])
    /\ \E v \in DictKeys(graph._predecessors) :
           is_edge(graph, v, v) /\ get_edge_cost(graph, v, v) < 0
    /\ raised = "Vertex not in graph!"

\* the functions of the algorithm suite other than the generator
AlgorithmFunctions == EndpointFunctions \cup {"strongly_connected_tarjan"}

\* C22: a call of an algorithm function other than the generator, whether
\* it returns or raises, leaves the graph handed to it as it was: the same
\* vertices, the same lists in the same order in both adjacency maps, the
\* same costs
C22_GraphUnchanged ==
    [][call'.op \in AlgorithmFunctions => graph' = graph]_vars

\* strongly_connected_tarjan, which builds graphs with add_vertex and
\* add_edge, has returned two components or more, one of them with an edge
C22_Witness ==
    /\ call.op = "strongly_connected_tarjan"
    /\ raised = NoError
    /\ Len(result.value) >= 2
    /\ \E i \in 1 .. Len(result.value) : number_of_edges(result.value[i]) > 0
    /\ number_of_edges(graph) = WEdges

\* the lines of the file written, without their newlines
FileLinesWritten ==
    {SelectSeq(l, LAMBDA c : c # "\n") : l \in ListElems(file_lines(file.text, 1, <<>>, <<>>))}

\* the vertices of a graph without inbound and outbound edges
IsolatedVertices(g) ==
    {v \in DictKeys(g._predecessors) : PredecessorsOf(g, v) = <<>> /\ SuccessorsOf(g, v) = <<>>}

\* C23: the file write_to_file writes for a DirectedGraph with integer
\* identifiers holds one line "<v> -1" per isolated vertex and one line
\* "<source> <target>" per edge and nothing else, and read_from_file, reading
\* it into an empty graph, returns and leaves a graph with the same vertices
\* and the same edges
C23_RoundTrip ==
    /\ file.written =>
           FileLinesWritten =
               {vertex_str(v) \o <<" ", "-", "1">> : v \in IsolatedVertices(graph)}
               \cup {vertex_str(e[1]) \o <<" ">> \o vertex_str(e[2]) : e \in SuccessorEdges(graph)}
    /\ call.op = "read_from_file" =>
           /\ raised = NoError
           /\ DictKeys(objects[1]._predecessors) = DictKeys(graph._predecessors)
           /\ DictKeys(objects[1]._successors) = DictKeys(graph._successors)
           /\ SuccessorEdges(objects[1]) = SuccessorEdges(graph)
           /\ PredecessorEdges(objects[1]) = PredecessorEdges(graph)

\* the commands of the UI that change the graph
UiMutators == {"add_vertex", "remove_vertex", "add_edge", "remove_edge", "set_edge_cost"}

\* C24: "create a copy" leaves the UI with two distinct graph objects, the
\* saved original and the active one, both equal to the graph as it was;
\* while the copy is active, add_vertex, remove_vertex, add_edge,
\* remove_edge and set_edge_cost on the active graph leave the saved
\* original as it is; "restore" makes the saved original, which is the
\* graph as it was when the copy was created, the active graph
C24_IndependentCopy ==
    [][/\ (call'.op = "create_a_copy_of_the_graph" /\ raised' = NoError) =>
              /\ ui'.graph # ui'.original_graph
              /\ objects'[ui'.graph] = objects[ui.graph]
              /\ objects'[ui'.original_graph] = objects[ui.graph]
       /\ (ui.is_copy /\ call'.op \in UiMutators) =>
              /\ ui'.is_copy
              /\ objects'[ui'.original_graph] = objects[ui.original_graph]
       /\ (call'.op = "restore_the_original_graph" /\ raised' = NoError) =>
              objects'[ui'.graph] = objects[ui.original_graph]]_vars

\* a copy is active, and a set_edge_cost on it has made its costs differ
\* from the ones of the saved original
C24_Witness ==
    /\ ui.is_copy
    /\ call.op = "set_edge_cost"
    /\ raised = NoError
    /\ Adjacency(objects[ui.graph]) = Adjacency(objects[ui.original_graph])
    /\ objects[ui.graph]._costs # objects[ui.original_graph]._costs

\* C30: __original_graph is set exactly when __is_copy is true; "create a
\* copy" while a copy is active or on an empty graph raises a UiError and
\* changes neither the graphs nor the fields; "restore" without a copy
\* raises a UiError and changes nothing; "create a copy" right after a
\* "restore" succeeds
C30_SingleSnapshot ==
    /\ [](ui.original_graph # NoObject <=> ui.is_copy)
    /\ [][/\ (/\ call'.op = "create_a_copy_of_the_graph"
              /\ (ui.is_copy \/ number_of_vertices(objects[ui.graph]) = 0)) =>
                 /\ raised' \in {"Graph already has a copy!", "Graph is empty!"}
                 /\ objects' = objects
                 /\ ui' = ui
          /\ (call'.op = "restore_the_original_graph" /\ ~ui.is_copy) =>
                 /\ raised' = "Graph has no copy!"
                 /\ objects' = objects
                 /\ ui' = ui
          /\ (/\ call.op = "restore_the_original_graph"
              /\ raised = NoError
              /\ call'.op = "create_a_copy_of_the_graph") =>
                 /\ raised' = NoError
                 /\ ui'.is_copy]_vars

\* "create a copy" has failed on a copy that differs from the original
C30_Witness ==
    /\ call.op = "create_a_copy_of_the_graph"
    /\ raised = "Graph already has a copy!"
    /\ ui.is_copy
    /\ objects[ui.graph] # objects[ui.original_graph]

\* C25: on a graph with identifiers 0 .. V-1 and integer costs, zero-cost
\* self-loops and zero-cost cycles included, lowest_cost_path_matrix and
\* get_path_from_matrix called with start and end in the graph come to an
\* end: they return, or they raise "Negative cycle detected!"
C25_ReconstructionTerminates ==
    (/\ call.op \in {"lowest_cost_path_matrix", "get_path_from_matrix"}
     /\ ContiguousIds(graph)
     /\ ~AbsentEndpoint) =>
        raised \in {NoError, "Negative cycle detected!"}

\* the matrices of lowest_cost_path_matrix were computed without an
\* exception and the last one has a finite entry for (start, end): the
\* reconstruction loop is entered
ReconstructionEntered(g, start, end) ==
    LET adj == adj_matrix(g)
    IN  /\ adj.raised = NoError
        /\ LET powers == intermediate_matrices(adj.matrix, number_of_vertices(g), 1,
                                                <<adj.matrix>>)
           IN  /\ powers.raised = NoError
               /\ powers.value[Len(powers.value)][start][end] # inf

\* the last matrix of lowest_cost_path_matrix, where ReconstructionEntered
LastMatrix(g) ==
    LET adj == adj_matrix(g)
        powers == intermediate_matrices(adj.matrix, number_of_vertices(g), 1, <<adj.matrix>>)
    IN  powers.value[Len(powers.value)]

\* the position, among the successors of current, of the first one that
\* satisfies matrix[current][end] = matrix[n][end] + cost(current, n); 0
\* when none does
PickedSuccessor(g, matrix, end, current) ==
    LET out == get_outbound_vertices(g, current)
        hits == {i \in 1 .. Len(out) :
                    matrix[current][end]
                        = Plus(matrix[out[i]][end], get_edge_cost(g, current, out[i]))}
    IN  IF hits = {} THEN 0 ELSE CHOOSE i \in hits : \A j \in hits : i <= j

\* following the picked successors from current, one of them has been
\* visited before end is reached
RECURSIVE PickedWasVisited(_, _, _, _, _)
PickedWasVisited(g, matrix, end, current, visited) ==
    IF current = end THEN FALSE
    ELSE LET i == PickedSuccessor(g, matrix, end, current)
             seen == visited \cup {current}
         IN  IF i = 0 THEN FALSE
             ELSE LET n == get_outbound_vertices(g, current)[i]
                  IN  IF n \in seen THEN TRUE
                      ELSE PickedWasVisited(g, matrix, end, n, seen)

\* C26: when the reconstruction of lowest_cost_path_matrix raises
\* "Negative cycle detected!", the successor picked at that point, the
\* first one satisfying the cost equality, had been visited; a visited
\* successor that is not the one picked raises nothing
C26_RaisedForPickedSuccessorOnly ==
    (/\ MatrixCall
     /\ raised = "Negative cycle detected!"
     /\ ReconstructionEntered(graph, call.args[1], call.args[2])) =>
        PickedWasVisited(graph, LastMatrix(graph), call.args[2], call.args[1], {})

\* C27: number_of_distinct_minimum_cost_walks called with start and end in
\* the graph returns a count and raises nothing, whatever the sign of the
\* costs, a negative cycle reachable from start included
C27_CountAlwaysReturned ==
    (call.op = "number_of_distinct_minimum_cost_walks" /\ ~AbsentEndpoint) =>
        (raised = NoError /\ result.kind = "count")

\* the positions, in the inbound list of vertex, of the vertices whose hop
\* distance from s is one less than the hop distance of vertex
OneCloser(g, s, vertex) ==
    LET inbound == get_inbound_vertices(g, vertex)
    IN  {k \in 1 .. Len(inbound) :
            /\ inbound[k] \in ReachableFrom(g, s)
            /\ HopDistance(g, s, inbound[k]) = HopDistance(g, s, vertex) - 1}

\* C28: in a non-empty walk returned by shortest_path, the vertex before
\* each vertex is the first one, in the order of that vertex's inbound
\* list, whose breadth-first distance from start is one less than the
\* vertex's own; there is such a predecessor at every positive distance,
\* and one vertex is added per unit of distance: the i-th vertex of the
\* walk is at distance i - 1 and the walk has distance(end) + 1 vertices
C28_FirstPredecessorOneCloser ==
    (/\ call.op = "shortest_path"
     /\ raised = NoError
     /\ result.kind = "walk"
     /\ result.value # <<>>) =>
        LET s == call.args[1]
            e == call.args[2]
            walk == result.value
        IN  /\ Len(walk) = HopDistance(graph, s, e) + 1
            /\ walk[Len(walk)] = e
            /\ \A i \in 1 .. Len(walk) :
                   /\ walk[i] \in ReachableFrom(graph, s)
                   /\ HopDistance(graph, s, walk[i]) = i - 1
            /\ \A i \in 1 .. (Len(walk) - 1) :
                   LET hits == OneCloser(graph, s, walk[i + 1])
                   IN  /\ hits # {}
                       /\ walk[i] = get_inbound_vertices(graph, walk[i + 1])[
                                        CHOOSE k \in hits : \A j \in hits : k <= j]

\* a walk of two edges whose end has two predecessors one step closer to
\* start, the one with the larger identifier listed first
C28_Witness ==
    /\ call.op = "shortest_path"
    /\ raised = NoError
    /\ result.kind = "walk"
    /\ Len(result.value) = 3
    /\ LET s == call.args[1]
           e == call.args[2]
           inbound == get_inbound_vertices(graph, e)
           hits == OneCloser(graph, s, e)
       IN  /\ Cardinality(hits) = 2
           /\ \E k \in hits : \A j \in hits : k <= j /\ inbound[k] >= inbound[j]

\* C29: get_path_from_matrix agrees with lowest_cost_path_matrix.  A call
\* get_path_from_matrix(G, matrices[-1], start, end) that follows a return
\* (walk, matrices) of lowest_cost_path_matrix(G, start, end) returns that
\* walk; and where the reconstruction of lowest_cost_path_matrix raises
\* "Negative cycle detected!", get_path_from_matrix on the last matrix of
\* that graph raises it too.
C29_CompanionAgrees ==
    /\ [][(/\ call.op = "lowest_cost_path_matrix"
           /\ raised = NoError
           /\ call'.op = "get_path_from_matrix"
           /\ call'.args = call.args) =>
              (/\ raised' = NoError
               /\ result'.kind = "walk"
               /\ result'.value = result.value.walk)]_vars
    /\ [](( /\ MatrixCall
            /\ raised = "Negative cycle detected!"
            /\ ReconstructionEntered(graph, call.args[1], call.args[2])) =>
              get_path_from_matrix(graph, LastMatrix(graph), call.args[1],
                                   call.args[2]).raised = "Negative cycle detected!")

\* get_path_from_matrix has returned a walk of two edges on a graph that
\* has a negative cost
C29_Witness ==
    /\ call.op = "get_path_from_matrix"
    /\ raised = NoError
    /\ result.kind = "walk"
    /\ Len(result.value) = 3
    /\ \E e \in SuccessorEdges(graph) : get_edge_cost(graph, e[1], e[2]) < 0

====
